---------------------------- MODULE Spec2Model ----------------------------
(***************************************************************************)
(* A model of the "Not You" kiosk: the prompt mapper, the application      *)
(* state store, the form panel and image panel handlers, the coordinator   *)
(* (MainScreen) with its Kivy clock events, and the generation client      *)
(* with one worker thread per job.                                         *)
(*                                                                         *)
(* Conventions.  A Python str is a sequence of atoms; " ".join puts the    *)
(* atom " " between the parts, and the empty str is << >>.  A Python dict  *)
(* is a sequence of <<key, value>> pairs with distinct keys, in insertion  *)
(* order.  None is the one-atom sequence <<"<None>">>, which no str equals. *)
(***************************************************************************)
EXTENDS Integers, Sequences, FiniteSets, TLC

(***************************************************************************)
(* config.py (the en dashes of the income labels are written "-")          *)
(***************************************************************************)
MAX_RETRIES == 3

MAX_ARCHIVED_IMAGES == 100

DEFAULT_SEED == 888

PROMPT_PREFIX == <<"professional portrait photograph of a">>

PROMPT_SUFFIX == <<"person, high quality, detailed, realistic, photographic style">>

DEMOGRAPHICS_FIELDS ==
  [ age |->
      [ label |-> "Age",
        options |-> <<"?", "Child", "Teen", "Young Adult", "Middle-Aged", "Senior">>,
        prompt_mapping |->
          ( "Child" :> "child" @@ "Teen" :> "teenager" @@
            "Young Adult" :> "young adult" @@ "Middle-Aged" :> "middle-aged" @@
            "Senior" :> "elderly" ) ],
    gender |->
      [ label |-> "Gender",
        options |-> <<"?", "Male", "Female">>,
        prompt_mapping |-> ( "Male" :> "male" @@ "Female" :> "female" ) ],
    ethnicity |->
      [ label |-> "Ethnicity",
        options |-> <<"?", "White", "Asian", "American Indian",
                      "Black or African American",
                      "Hispanic Latino or Spanish origin",
                      "Middle Eastern or North African",
                      "Native Hawaiian or Other Pacific Islander", "Other">>,
        prompt_mapping |->
          ( "White" :> "caucasian" @@ "Asian" :> "asian" @@
            "American Indian" :> "native american" @@
            "Black or African American" :> "african american" @@
            "Hispanic Latino or Spanish origin" :> "hispanic" @@
            "Middle Eastern or North African" :> "middle eastern" @@
            "Native Hawaiian or Other Pacific Islander" :> "pacific islander" @@
            "Other" :> "mixed ethnicity" ) ],
    education |->
      [ label |-> "Education",
        options |-> <<"?", "Some schooling", "High school", "College",
                      "Graduate / professional degree">>,
        prompt_mapping |->
          ( "Some schooling" :> "with basic education" @@
            "High school" :> "with high school education" @@
            "College" :> "college educated" @@
            "Graduate / professional degree" :> "highly educated professional" ) ],
    employment |->
      [ label |-> "Employment",
        options |-> <<"?", "Unemployed", "Student", "Part-time", "Full-time", "Retired">>,
        prompt_mapping |->
          ( "Unemployed" :> "unemployed" @@ "Student" :> "student" @@
            "Part-time" :> "part-time worker" @@ "Full-time" :> "professional worker" @@
            "Retired" :> "retired" ) ],
    income |->
      [ label |-> "Income",
        options |-> <<"?", "$0-$24,999", "$25,000-$49,999", "$50,000-$99,999",
                      "$100,000-$199,999", "$200,000+">>,
        prompt_mapping |->
          ( "$0-$24,999" :> "low income" @@ "$25,000-$49,999" :> "modest income" @@
            "$50,000-$99,999" :> "middle class" @@
            "$100,000-$199,999" :> "upper middle class" @@
            "$200,000+" :> "wealthy" ) ] ]

(***************************************************************************)
(* Bounds of the exploration.                                              *)
(***************************************************************************)
\* The schema's field ids in the order config.py lists them, which is the order
\* FormPanel creates the dropdowns in; the exploration drives the first
\* MaxFields of them.
SchemaOrder == <<"age", "gender", "ethnicity", "education", "employment", "income">>

MaxFields == 2

\* Options explored per field: the sentinel and the next MaxOptions labels.
MaxOptions == 1

\* Pending Clock.schedule_once events the exploration keeps at once.
MaxClock == 2

\* Jobs submitted to the client in one run.
MaxJobs == 2

\* generate_new_random_seed draws from 1..MaxSeed.
MaxSeed == 1

ModelFields == { SchemaOrder[i] : i \in 1..MaxFields }

ModelOptions(f) ==
  LET opts == DEMOGRAPHICS_FIELDS[f].options
  IN  { opts[i] : i \in 1..(IF MaxOptions + 1 < Len(opts) THEN MaxOptions + 1 ELSE Len(opts)) }

(***************************************************************************)
(* Python values: str and dict.                                            *)
(***************************************************************************)
None == << "<None>" >>

\* Python truthiness of a str, dict or None.
Truthy(v) == v # None /\ v # << >>

\* " ".join(parts), parts a sequence of strs.
RECURSIVE Join(_)
Join(parts) ==
  IF parts = << >> THEN << >>
  ELSE IF Len(parts) = 1 THEN parts[1]
  ELSE parts[1] \o <<" ">> \o Join(Tail(parts))

Keys(d) == { d[i][1] : i \in 1..Len(d) }

Has(d, k) == k \in Keys(d)

Get(d, k) == LET i == CHOOSE i \in 1..Len(d) : d[i][1] = k IN d[i][2]

\* dict equality: the same keys with the same values, whatever the order.
DictEq(a, b) == Keys(a) = Keys(b) /\ \A k \in Keys(a) : Get(a, k) = Get(b, k)

\* d[k] = v: replaces in place, or appends a new key.
Put(d, k, v) ==
  IF Has(d, k) THEN [ i \in 1..Len(d) |-> IF d[i][1] = k THEN <<k, v>> ELSE d[i] ]
  ELSE Append(d, <<k, v>>)


\* The entries of a dict whose value is not the sentinel "?".
RECURSIVE NonSentinel(_)
NonSentinel(d) ==
  IF d = << >> THEN << >>
  ELSE IF Head(d)[2] = "?" THEN NonSentinel(Tail(d))
  ELSE << Head(d) >> \o NonSentinel(Tail(d))

\* list.insert(-1, x) on a non-empty list: x goes before the last element.
InsertBeforeLast(l, x) == SubSeq(l, 1, Len(l) - 1) \o <<x>> \o <<l[Len(l)]>>

\* str.lower() of the option labels the exploration passes where the field's
\* mapping has no entry for them; the others have nothing to lower.
Lower(label) ==
  CASE label = "Nonbinary" -> "nonbinary"
    [] label = "Child" -> "child"
    [] label = "Male" -> "male"
    [] label = "Senior" -> "senior"
    [] OTHER -> label

\* selection is None: no option, as a label that no schema has.
NoSelection == "<None>"

(***************************************************************************)
(* src/data/form_mapping.py: FormToPromptMapper                            *)
(***************************************************************************)
SchemaFields == DOMAIN DEMOGRAPHICS_FIELDS

field_order == <<"age", "gender", "ethnicity", "education", "employment", "income">>

InFieldOrder(f) == \E i \in 1..Len(field_order) : field_order[i] = f

\* map_selection_to_prompt without the test for the sentinel.
map_selection_to_prompt_no_sentinel(field_name, selection) ==
  IF field_name \notin SchemaFields THEN None
  ELSE LET prompt_mapping == DEMOGRAPHICS_FIELDS[field_name].prompt_mapping
       IN  IF selection \in DOMAIN prompt_mapping
           THEN << prompt_mapping[selection] >>
           ELSE << Lower(selection) >>

\* map_selection_to_prompt giving None where the mapping has no entry.
map_selection_to_prompt_no_fallback(field_name, selection) ==
  IF field_name \notin SchemaFields THEN None
  ELSE IF selection = "?" \/ selection = NoSelection THEN None
  ELSE LET prompt_mapping == DEMOGRAPHICS_FIELDS[field_name].prompt_mapping
       IN  IF selection \in DOMAIN prompt_mapping
           THEN << prompt_mapping[selection] >>
           ELSE None

map_selection_to_prompt(field_name, selection) ==
  IF field_name \notin SchemaFields THEN None
  ELSE IF selection = "?" \/ selection = NoSelection THEN None
  ELSE LET prompt_mapping == DEMOGRAPHICS_FIELDS[field_name].prompt_mapping
       IN  IF selection \in DOMAIN prompt_mapping
           THEN << prompt_mapping[selection] >>
           ELSE << Lower(selection) >>

\* A first loop that goes through form_data.items() instead of field_order.
RECURSIVE OrderedDescriptorsByInsertion(_, _)
OrderedDescriptorsByInsertion(form_data, i) ==
  IF i > Len(form_data) THEN << >>
  ELSE LET f    == form_data[i][1]
           rest == OrderedDescriptorsByInsertion(form_data, i + 1)
       IN  IF InFieldOrder(f) /\ Truthy(map_selection_to_prompt(f, form_data[i][2]))
           THEN << map_selection_to_prompt(f, form_data[i][2]) >> \o rest
           ELSE rest

\* The first loop of build_prompt: the fields of field_order from position i on.
RECURSIVE OrderedDescriptors(_, _)
OrderedDescriptors(form_data, i) ==
  IF i > Len(field_order) THEN << >>
  ELSE LET f    == field_order[i]
           rest == OrderedDescriptors(form_data, i + 1)
       IN  IF Has(form_data, f) /\ Truthy(map_selection_to_prompt(f, Get(form_data, f)))
           THEN << map_selection_to_prompt(f, Get(form_data, f)) >> \o rest
           ELSE rest

\* The second loop: the items of form_data, in the dict's order, whose field is
\* not in field_order.
RECURSIVE ExtraDescriptors(_, _)
ExtraDescriptors(form_data, i) ==
  IF i > Len(form_data) THEN << >>
  ELSE LET f    == form_data[i][1]
           rest == ExtraDescriptors(form_data, i + 1)
       IN  IF ~InFieldOrder(f) /\ Truthy(map_selection_to_prompt(f, form_data[i][2]))
           THEN << map_selection_to_prompt(f, form_data[i][2]) >> \o rest
           ELSE rest

\* build_prompt that inserts "person" whatever the descriptors.
build_prompt_always_person(form_data) ==
  LET descriptors == OrderedDescriptors(form_data, 1) \o ExtraDescriptors(form_data, 1)
      parts1 == IF Truthy(PROMPT_PREFIX) THEN << PROMPT_PREFIX >> ELSE << >>
      parts2 == IF descriptors # << >> THEN Append(parts1, Join(descriptors)) ELSE parts1
      parts3 == IF Truthy(PROMPT_SUFFIX) THEN Append(parts2, PROMPT_SUFFIX) ELSE parts2
  IN  Join(InsertBeforeLast(parts3, <<"person">>))

build_prompt(form_data) ==
  LET descriptors == OrderedDescriptors(form_data, 1) \o ExtraDescriptors(form_data, 1)
      parts1 == IF Truthy(PROMPT_PREFIX) THEN << PROMPT_PREFIX >> ELSE << >>
      parts2 == IF descriptors # << >> THEN Append(parts1, Join(descriptors)) ELSE parts1
      parts3 == IF Truthy(PROMPT_SUFFIX) THEN Append(parts2, PROMPT_SUFFIX) ELSE parts2
      parts4 == IF Len(parts3) <= 2
                THEN IF Truthy(PROMPT_SUFFIX)
                     THEN InsertBeforeLast(parts3, <<"person">>)
                     ELSE Append(parts3, <<"person">>)
                ELSE parts3
  IN  Join(parts4)

(***************************************************************************)
(* The program's state.                                                    *)
(***************************************************************************)
VARIABLES
  form_widgets,        \* FormPanel.form_widgets[f]['current_value']
  state,               \* ApplicationState._state
  panel,               \* ImagePanel: has_generated_image, the labels, the files archived
  clock,               \* Kivy Clock: the pending schedule_once events, in firing order
  test_event,          \* the startup event Clock.schedule_once(_test_image_generation, 3.0)
  ui_pc,               \* the UI thread: "idle", or "submit" inside _generate_image_async
  ui_prompt,           \* the prompt argument of the running _generate_image_async
  current_request_id,  \* APIClient.current_request_id
  active_requests,     \* APIClient.active_requests
  jobs,                \* one worker thread per request id: position and locals
  success_calls,       \* per request id, how often on_success was invoked
  error_calls,         \* per request id, how often on_error was invoked
  cancelled,           \* per request id: it was in active_requests at some cancel
  last_op,             \* the UI handler that completed last
  last_arg,            \* and the map or prompt it worked on
  observers,           \* ApplicationState._observers: event type -> list of callbacks
  general_callback,    \* ApplicationState._general_callback
  notified,            \* the callbacks the last state-API call invoked, in order
  returned,            \* what the last state-API call returned
  held,                \* the dicts a caller of the state API holds on to
  aliases,             \* which of them are the very object stored as form_data
  threads,             \* per thread, the stack of state-API calls it is inside
  lock                 \* the holder of ApplicationState._lock, or "free"

storeVars == << observers, general_callback, notified, returned, held, aliases >>

threadVars == << threads, lock >>

vars == << form_widgets, state, panel, clock, test_event, ui_pc, ui_prompt,
           current_request_id, active_requests, jobs, success_calls, error_calls,
           cancelled, last_op, last_arg, storeVars, threadVars >>

appVars == << form_widgets, state, panel, clock, test_event, ui_pc, ui_prompt >>

JobIds == 0..(MaxJobs - 1)

NoJob == [ pc |-> "unborn", prompt |-> << >>, cb |-> "none", seed |-> DEFAULT_SEED,
           attempt |-> 0, response |-> "none" ]

(***************************************************************************)
(* A handler runs through several calls that each change the state, so the *)
(* calls are functions from world to world: the world is the part of the   *)
(* state a UI handler can touch.                                           *)
(***************************************************************************)
World ==
  [ state |-> state, panel |-> panel, clock |-> clock,
    current_request_id |-> current_request_id, active_requests |-> active_requests,
    jobs |-> jobs, success_calls |-> success_calls, error_calls |-> error_calls,
    cancelled |-> cancelled ]

CommitWorld(w) ==
  /\ state' = w.state
  /\ panel' = w.panel
  /\ clock' = w.clock
  /\ current_request_id' = w.current_request_id
  /\ active_requests' = w.active_requests
  /\ jobs' = w.jobs
  /\ success_calls' = w.success_calls
  /\ error_calls' = w.error_calls
  /\ cancelled' = w.cancelled

Commit(w) == CommitWorld(w) /\ UNCHANGED << storeVars, threadVars >>

(***************************************************************************)
(* src/api/client.py: the calls the UI thread makes                        *)
(***************************************************************************)
\* The cancel with the id counter started over as well.
cancel_pending_requests_resetting(w) ==
  [ w EXCEPT !.active_requests = {}, !.current_request_id = 0,
             !.cancelled = [ j \in JobIds |-> w.cancelled[j] \/ j \in w.active_requests ] ]

\* lines 137-138, under request_lock: self.active_requests.clear(); nothing else
\* of the client changes.  cancelled remembers the ids the call removed.
cancel_pending_requests(w) ==
  [ w EXCEPT !.active_requests = {},
             !.cancelled = [ j \in JobIds |-> w.cancelled[j] \/ j \in w.active_requests ] ]

(***************************************************************************)
(* src/ui/image_panel.py: the observers ImagePanel registers               *)
(***************************************************************************)
\* _update_image: bytes are written to a new file of the archive directory,
\* named by the time to the millisecond; nothing is ever deleted from it.
_update_image(w, image_data) ==
  IF Truthy(image_data) THEN [ w EXCEPT !.panel.archive = @ + 1 ] ELSE w

\* _show_remix_button: Clock.schedule_once(fade_in, 0.1)
_show_remix_button(w) == [ w EXCEPT !.panel.fade_in_scheduled = TRUE ]

\* fade_in(dt): below full opacity it adds 0.1 and schedules itself again.
\* remix_opacity is in tenths, to the nearest tenth (ten float additions of
\* 0.1 come to 0.9999999999999999, and one more call caps it at 1.0).
fade_in(w) ==
  IF w.panel.remix_opacity < 10
  THEN [ w EXCEPT !.panel.remix_opacity = @ + 1 ]
  ELSE [ w EXCEPT !.panel.fade_in_scheduled = FALSE ]

\* _on_image_change with the flag following the image: cleared again when a
\* notification carries no image.
_on_image_change_following(w, image_data) ==
  LET w1 == _update_image(w, image_data)
  IN  IF Truthy(image_data) /\ ~w1.panel.has_generated_image
      THEN _show_remix_button([ w1 EXCEPT !.panel.has_generated_image = TRUE ])
      ELSE [ w1 EXCEPT !.panel.has_generated_image = Truthy(image_data) ]

_on_image_change(w, image_data) ==
  LET w1 == _update_image(w, image_data)
  IN  IF Truthy(image_data) /\ ~w1.panel.has_generated_image
      THEN _show_remix_button([ w1 EXCEPT !.panel.has_generated_image = TRUE ])
      ELSE w1

_on_prompt_change(w, prompt) ==
  [ w EXCEPT !.panel.prompt_label =
      IF Truthy(prompt) THEN <<"Prompt: ">> \o prompt
      ELSE <<"Select form options to generate a portrait...">> ]

\* _start_generating_animation that cancels the event it is about to replace.
_start_generating_animation_cancelling(w) ==
  [ w EXCEPT !.panel.animation_dots = 0,
             !.panel.animation_event = "scheduled" ]

\* _start_generating_animation: self.animation_event takes a new
\* Clock.schedule_interval event; the event it referred to before stays on
\* the clock if it was not cancelled, with no reference left to it.
_start_generating_animation(w) ==
  [ w EXCEPT !.panel.animation_dots = 0,
             !.panel.replaced_events = @ \/ w.panel.animation_event = "scheduled",
             !.panel.animation_event = "scheduled" ]

\* _stop_generating_animation: cancels the event self.animation_event refers
\* to, when the attribute exists.
_stop_generating_animation(w) ==
  IF w.panel.animation_event = "unset" THEN w
  ELSE [ w EXCEPT !.panel.animation_event = "cancelled" ]

_update_status(w, is_generating) ==
  IF is_generating
  THEN _start_generating_animation([ w EXCEPT !.panel.status_label = "Generating..." ])
  ELSE _stop_generating_animation([ w EXCEPT !.panel.status_label = "Ready" ])

\* "Generating" followed by n dots.
GeneratingText(n) ==
  CASE n = 0 -> "Generating"
    [] n = 1 -> "Generating."
    [] n = 2 -> "Generating.."
    [] n = 3 -> "Generating..."

\* _animate_generating_text(dt), called by every interval event on the clock.
_animate_generating_text(w) ==
  [ w EXCEPT !.panel.animation_dots = (@ + 1) % 4,
             !.panel.status_label = GeneratingText((w.panel.animation_dots + 1) % 4) ]

_on_generation_status_change(w, is_generating) == _update_status(w, is_generating)

(***************************************************************************)
(* src/ui/main_screen.py: the coordinator                                  *)
(***************************************************************************)
\* _trigger_image_generation: cancel, then defer the submission by 0.1 s.
_trigger_image_generation(w) ==
  LET w1     == cancel_pending_requests(w)
      prompt == w1.state.current_prompt
  IN  IF Truthy(prompt)
      THEN [ w1 EXCEPT !.clock = Append(@, [ kind |-> "generate", prompt |-> prompt ]) ]
      ELSE w1

(***************************************************************************)
(* src/data/state.py: ApplicationState.  Each setter stores under the      *)
(* lock, then notifies the event's observers, then the general callback    *)
(* (MainScreen._on_state_change, bound at construction).                   *)
(***************************************************************************)
\* get_current_seed and generate_new_random_seed are called by the client and
\* the image panel and are not defined in state.py; they are taken from the
\* specification: the seed is stored, and read as it stands.
get_current_seed(w) == w.state.current_seed

\* set_current_seed that takes only the seeds the generator would draw.
set_current_seed_positive_only(w, n) ==
  IF n > 0 THEN [ w EXCEPT !.state.current_seed = n ] ELSE w

\* set_current_seed(n) stores n as it is given (test_remix.py sets 12345 and
\* reads it back).
set_current_seed(w, n) == [ w EXCEPT !.state.current_seed = n ]

\* generate_new_random_seed returning a seed it does not store.
generate_new_random_seed_not_stored(w, new_seed) == w

generate_new_random_seed(w, new_seed) == [ w EXCEPT !.state.current_seed = new_seed ]

\* The second definition of set_current_prompt (line 274) replaces the first.
set_current_prompt(w, prompt) ==
  _on_prompt_change([ w EXCEPT !.state.current_prompt = prompt ], prompt)

set_generating_image(w, is_generating) ==
  _on_generation_status_change(
    [ w EXCEPT !.state.generating_image = is_generating ], is_generating)

set_current_image(w, image_data) ==
  _on_image_change([ w EXCEPT !.state.current_image = image_data ], image_data)

\* MainScreen._on_state_change: only a form_data event does anything but log.
_on_state_change_form_data(w, new_value) ==
  LET form_data == IF Truthy(new_value) THEN new_value ELSE << >>
  IN  IF Truthy(form_data)
      THEN _trigger_image_generation(set_current_prompt(w, build_prompt(form_data)))
      ELSE w

\* set_form_data storing only the entries that are not the sentinel.
set_form_data_normalizing(w, form_data) ==
  _on_state_change_form_data(
    [ w EXCEPT !.state.form_data = NonSentinel(form_data) ], form_data)

\* form_data.copy() is stored as it is given; no observer is registered for
\* 'form_data', the general callback is.
set_form_data(w, form_data) ==
  _on_state_change_form_data([ w EXCEPT !.state.form_data = form_data ], form_data)

\* The callbacks _generate_image_async installs (main_screen.py:164-177).
on_success(w, image_data) ==
  set_generating_image(set_current_image(w, image_data), FALSE)

on_error(w) == set_generating_image(w, FALSE)

(***************************************************************************)
(* src/api/client.py: generate_image                                       *)
(***************************************************************************)
invoke_on_success(w, id, image_bytes) ==
  LET w1 == [ w EXCEPT !.success_calls[id] = @ + 1 ]
  IN  IF w.jobs[id].cb = "coordinator" THEN on_success(w1, image_bytes) ELSE w1

invoke_on_error(w, id) ==
  LET w1 == [ w EXCEPT !.error_calls[id] = @ + 1 ]
  IN  IF w.jobs[id].cb = "coordinator" THEN on_error(w1) ELSE w1

\* The block under request_lock with the increment lost.
allocate_request_id_no_increment(w) ==
  [ w EXCEPT !.active_requests = @ \cup { w.current_request_id } ]

\* lines 58-61, under request_lock: request_id = self.current_request_id, the
\* counter goes up by one, the id joins the active set.
allocate_request_id(w) ==
  [ w EXCEPT !.current_request_id = @ + 1,
             !.active_requests = @ \cup { w.current_request_id } ]

\* lines 66-75: the worker thread of request id is created and started; when
\* Thread.start() raises, on_error is called at once.
start_worker(w, id, prompt, cb, thread_starts) ==
  LET w1 == [ w EXCEPT !.jobs[id] = [ NoJob EXCEPT
                                        !.pc = IF thread_starts THEN "check1" ELSE "nothread",
                                        !.prompt = prompt, !.cb = cb ] ]
  IN  IF thread_starts THEN w1 ELSE invoke_on_error(w1, id)

\* Allocates the id and adds it to the active set under the lock, then starts
\* the worker thread.
generate_image(w, prompt, cb, thread_starts) ==
  start_worker(allocate_request_id(w), w.current_request_id, prompt, cb, thread_starts)

\* The parameters generate_image requires (client.py:45-46: none has a default)
\* and the keyword arguments _generate_image_async passes (main_screen.py:180-184).
generate_image_params == { "prompt", "app_state", "on_success", "on_error" }

coordinator_call_args == { "prompt", "on_success", "on_error" }

\* Python binds a call only when every required parameter is given: otherwise
\* the call raises TypeError before the body runs.
CallBinds(args, params) == params \subseteq args /\ args \subseteq params

\* submit_from_coordinator with an except clause that does not reset the flag.
submit_from_coordinator_no_reset(w, prompt, thread_starts) ==
  IF CallBinds(coordinator_call_args, generate_image_params)
  THEN generate_image(w, prompt, "coordinator", thread_starts)
  ELSE w

\* _generate_image_async after set_generating_image(True): the call of
\* generate_image, and the except clause when it raises.
submit_from_coordinator(w, prompt, thread_starts) ==
  IF CallBinds(coordinator_call_args, generate_image_params)
  THEN generate_image(w, prompt, "coordinator", thread_starts)
  ELSE set_generating_image(w, FALSE)

(***************************************************************************)
(* src/ui/form_panel.py                                                    *)
(***************************************************************************)
\* The sparse map _update_form_data collects: the widgets in creation order,
\* the sentinel left out.
RECURSIVE CollectFormData(_, _)
CollectFormData(widgets, i) ==
  IF i > Len(SchemaOrder) THEN << >>
  ELSE LET f == SchemaOrder[i]
       IN  IF widgets[f] # "?"
           THEN << <<f, widgets[f]>> >> \o CollectFormData(widgets, i + 1)
           ELSE CollectFormData(widgets, i + 1)

\* _update_form_data without the panel's own set_current_prompt.
_update_form_data_no_prompt(w, widgets) == set_form_data(w, CollectFormData(widgets, 1))

_update_form_data(w, widgets) ==
  LET form_data == CollectFormData(widgets, 1)
  IN  set_current_prompt(set_form_data(w, form_data), build_prompt(form_data))

\* reset_form without its set_current_prompt("").
reset_form_keeps_prompt(w) == set_form_data(w, << >>)

\* lines 352-353, after the loop that puts every widget back to "?".
reset_form(w) == set_current_prompt(set_form_data(w, << >>), << >>)

(***************************************************************************)
(* Initial state: after MainScreen.__init__                                *)
(***************************************************************************)
\* The event types under which the mutators notify, and the field names.
EventTypes ==
  { "form_data", "form_field_changed", "current_prompt", "current_image",
    "generating_image", "api_status", "api_status_changed",
    "last_generation_time", "generation_time_updated" }

Threads == { "ui", "worker" }

\* ApplicationState.__init__: no observers, no general callback, default fields.
NewState ==
  [ form_data |-> << >>, current_image |-> None, current_prompt |-> << >>,
    generating_image |-> FALSE, api_status |-> "idle",
    last_generation_time |-> None, current_seed |-> DEFAULT_SEED ]

NoObservers == [ e \in EventTypes |-> << >> ]

\* ImagePanel.__init__ registers its three observers; MainScreen binds
\* _on_state_change as the general callback.
AppObservers ==
  [ NoObservers EXCEPT !["current_image"] = << "_on_image_change" >>,
                       !["current_prompt"] = << "_on_prompt_change" >>,
                       !["generating_image"] = << "_on_generation_status_change" >> ]

InitStoreVars ==
  /\ notified = << >>
  /\ returned = None
  /\ held = [ arg |-> << >>, got |-> << >> ]
  /\ aliases = {}
  /\ threads = [ t \in Threads |-> << >> ]
  /\ lock = "free"

InitApp ==
  /\ form_widgets = [ f \in SchemaFields |-> "?" ]
  /\ state = NewState
  /\ panel = [ has_generated_image |-> FALSE, remix_opacity |-> 0,
               fade_in_scheduled |-> FALSE, archive |-> 0, status_label |-> "Ready",
               animation_event |-> "unset", replaced_events |-> FALSE,
               animation_dots |-> 0,
               prompt_label |-> <<"Select form options to generate a portrait...">> ]
  /\ clock = << >>
  /\ test_event = TRUE
  /\ ui_pc = "idle"
  /\ ui_prompt = << >>
  /\ current_request_id = 0
  /\ active_requests = {}
  /\ jobs = [ j \in JobIds |-> NoJob ]
  /\ success_calls = [ j \in JobIds |-> 0 ]
  /\ error_calls = [ j \in JobIds |-> 0 ]
  /\ cancelled = [ j \in JobIds |-> FALSE ]
  /\ last_op = "init"
  /\ last_arg = << >>

Init ==
  /\ observers = AppObservers
  /\ general_callback = "_on_state_change"
  /\ InitStoreVars
  /\ InitApp

(***************************************************************************)
(* The UI thread's handlers.                                               *)
(***************************************************************************)
\* FormPanel._on_option_selected
OptionSelected(f, opt) ==
  /\ ui_pc = "idle"
  /\ LET widgets == [ form_widgets EXCEPT ![f] = opt ]
         w       == _update_form_data(World, widgets)
     IN  /\ Len(w.clock) <= MaxClock
         /\ form_widgets' = widgets
         /\ Commit(w)
         /\ last_arg' = CollectFormData(widgets, 1)
  /\ last_op' = "select"
  /\ UNCHANGED << test_event, ui_pc, ui_prompt >>

\* FormPanel.reset_form
ResetForm ==
  /\ ui_pc = "idle"
  /\ form_widgets' = [ f \in SchemaFields |-> "?" ]
  /\ Commit(reset_form(World))
  /\ last_op' = "reset"
  /\ last_arg' = << >>
  /\ UNCHANGED << test_event, ui_pc, ui_prompt >>

\* MainScreen._test_image_generation, the startup clock event
TestImageGeneration ==
  /\ ui_pc = "idle"
  /\ test_event
  /\ LET w == set_form_data(World, << <<"gender", "Male">> >>)
     IN  /\ Len(w.clock) <= MaxClock
         /\ Commit(w)
  /\ test_event' = FALSE
  /\ last_op' = "test"
  /\ last_arg' = << <<"gender", "Male">> >>
  /\ UNCHANGED << form_widgets, ui_pc, ui_prompt >>

\* ImagePanel._on_remix_pressed and _trigger_image_regeneration.  The button is
\* created with opacity 0 and is never disabled, so it takes a press at any time.
RemixPressed(new_seed) ==
  /\ ui_pc = "idle"
  /\ LET w0 == generate_new_random_seed(World, new_seed)
         w  == IF Truthy(w0.state.current_prompt)
               THEN [ set_generating_image(w0, TRUE) EXCEPT
                        !.clock = Append(@, [ kind |-> "trigger", prompt |-> << >> ]) ]
               ELSE w0
     IN  /\ Len(w.clock) <= MaxClock
         /\ Commit(w)
  /\ last_op' = "remix"
  /\ last_arg' = << >>
  /\ UNCHANGED << form_widgets, test_event, ui_pc, ui_prompt >>

\* The clock fires the deferred parent._trigger_image_generation() of a remix.
ClockTrigger ==
  /\ ui_pc = "idle"
  /\ clock # << >>
  /\ Head(clock).kind = "trigger"
  /\ LET w == _trigger_image_generation([ World EXCEPT !.clock = Tail(@) ])
     IN  Commit(w)
  /\ last_op' = "trigger"
  /\ last_arg' = << >>
  /\ UNCHANGED << form_widgets, test_event, ui_pc, ui_prompt >>

\* The clock fires _generate_image_async(prompt): set_generating_image(True) ...
GenerateBegin ==
  /\ ui_pc = "idle"
  /\ clock # << >>
  /\ Head(clock).kind = "generate"
  /\ Commit(set_generating_image([ World EXCEPT !.clock = Tail(@) ], TRUE))
  /\ ui_pc' = "submit"
  /\ ui_prompt' = Head(clock).prompt
  /\ UNCHANGED << form_widgets, test_event, last_op, last_arg >>

\* ... and the call of generate_image, with the except clause around it.
GenerateSubmit(thread_starts) ==
  /\ ui_pc = "submit"
  /\ CallBinds(coordinator_call_args, generate_image_params) => current_request_id < MaxJobs
  /\ Commit(submit_from_coordinator(World, ui_prompt, thread_starts))
  /\ ui_pc' = "idle"
  /\ ui_prompt' = << >>
  /\ last_op' = "generate"
  /\ last_arg' = ui_prompt
  /\ UNCHANGED << form_widgets, test_event >>

Next ==
  \/ \E f \in ModelFields : \E opt \in ModelOptions(f) : OptionSelected(f, opt)
  \/ ResetForm
  \/ TestImageGeneration
  \/ GenerateBegin
  \/ \E t \in BOOLEAN : GenerateSubmit(t)
  \/ \E s \in 1..MaxSeed : RemixPressed(s)
  \/ ClockTrigger

Spec == Init /\ [][Next]_vars

(***************************************************************************)
(* src/api/client.py: the worker thread of request j.  Every acquisition   *)
(* of request_lock is one step; what a thread computes on its own locals   *)
(* after it belongs to the same step.                                      *)
(***************************************************************************)
\* What one requests.post can come to: a 200 whose JSON has a first image
\* that decodes to a PNG, one whose first image decodes to bytes that are no
\* PNG, a 200 without an 'images' key, with an empty 'images' list, with an
\* undecodable first image, a 200 whose body is not JSON, another status, a
\* timeout, a connection error.
HttpOutcomes == { "image", "not_png", "no_images_key", "empty_images", "bad_base64",
                  "bad_json", "non_200", "timeout", "connection_error" }

\* response.json() returned: _make_api_request returns the body.
Returned200 == { "image", "not_png", "no_images_key", "empty_images", "bad_base64" }

\* The bodies whose first image base64.b64decode takes without raising.
Decodes == { "image", "not_png" }

PNG_MAGIC == "\\x89PNG\\r\\n\\x1a\\n"

\* base64.b64decode(response_data['images'][0])
image_bytes(job) ==
  IF job.response = "not_png" THEN << "GIF89a" >>
  ELSE << PNG_MAGIC, "image of " >> \o job.prompt

_is_request_active(w, j) == j \in w.active_requests

Goto(w, j, pc) == [ w EXCEPT !.jobs[j].pc = pc ]

WorkerStep(j, w) ==
  /\ Commit(w)
  /\ UNCHANGED << form_widgets, test_event, ui_pc, ui_prompt, last_op, last_arg >>

\* line 83: the check before starting
W_Check1(j) ==
  /\ jobs[j].pc = "check1"
  /\ WorkerStep(j, Goto(World, j, IF _is_request_active(World, j) THEN "payload" ELSE "finally"))

\* line 88: _create_api_payload reads app_state.get_current_seed(), or takes
\* DEFAULT_SEED when the caller passed no app_state; the two agree until a
\* remix has stored another seed.
W_Payload(j) ==
  /\ jobs[j].pc = "payload"
  /\ WorkerStep(j, [ Goto(World, j, "check2") EXCEPT !.jobs[j].seed = get_current_seed(World) ])

\* line 91: the check before the API call
W_Check2(j) ==
  /\ jobs[j].pc = "check2"
  /\ WorkerStep(j, Goto(World, j, IF _is_request_active(World, j) THEN "loop" ELSE "finally"))

\* The head of an attempt without the check of line 172.
W_LoopCheck_unchecked(j) ==
  /\ jobs[j].pc = "loop"
  /\ WorkerStep(j, Goto(World, j, "post"))

\* line 172: the check at the head of each attempt; cancelled, it returns None
W_LoopCheck(j) ==
  /\ jobs[j].pc = "loop"
  /\ WorkerStep(j, IF _is_request_active(World, j)
                   THEN Goto(World, j, "post")
                   ELSE [ Goto(World, j, "check3") EXCEPT !.jobs[j].response = "None" ])

\* lines 177-218: one requests.post and what follows it in _make_api_request
\* _make_api_request with range(MAX_RETRIES + 1).
make_api_request_attempt_one_more(w, j, outcome) ==
  IF outcome \in Returned200
  THEN [ Goto(w, j, "check3") EXCEPT !.jobs[j].response = outcome ]
  ELSE IF w.jobs[j].attempt = MAX_RETRIES
       THEN [ Goto(w, j, "except") EXCEPT !.jobs[j].attempt = 0 ]
       ELSE [ Goto(w, j, "loop") EXCEPT !.jobs[j].attempt = @ + 1 ]

\* _make_api_request going round again when the body has no usable 'images'.
make_api_request_attempt_images_only(w, j, outcome) ==
  IF outcome \in Decodes \cup { "bad_base64" }
  THEN [ Goto(w, j, "check3") EXCEPT !.jobs[j].response = outcome ]
  ELSE IF w.jobs[j].attempt = MAX_RETRIES - 1
       THEN [ Goto(w, j, "except") EXCEPT !.jobs[j].attempt = 0 ]
       ELSE [ Goto(w, j, "loop") EXCEPT !.jobs[j].attempt = @ + 1 ]

make_api_request_attempt(w, j, outcome) ==
  IF outcome \in Returned200
  THEN [ Goto(w, j, "check3") EXCEPT !.jobs[j].response = outcome ]
  ELSE IF w.jobs[j].attempt = MAX_RETRIES - 1
       THEN [ Goto(w, j, "except") EXCEPT !.jobs[j].attempt = 0 ]
       ELSE [ Goto(w, j, "loop") EXCEPT !.jobs[j].attempt = @ + 1 ]

W_Post(j, outcome) ==
  /\ jobs[j].pc = "post"
  /\ WorkerStep(j, make_api_request_attempt(World, j, outcome))

\* process_response with a response without an image dropped silently instead
\* of raised.
process_response_silent(w, j) ==
  LET w1 == [ w EXCEPT !.jobs[j].response = "none", !.jobs[j].attempt = 0 ]
  IN  IF w.jobs[j].response \in Decodes
      THEN [ w EXCEPT !.jobs[j].attempt = 0, !.jobs[j].pc = "check4" ]
      ELSE [ w1 EXCEPT !.jobs[j].pc = "finally" ]

\* lines 99-112: the check after the API call, then the response is processed:
\* None or a body without 'images' raises "No images in API response", an empty
\* list or an undecodable image raises out of _process_image_response.  The
\* locals of the retry loop are dead from here on; of the response, what it
\* decoded to lives on as image_bytes until the callback has it.
process_response(w, j) ==
  LET w1 == [ w EXCEPT !.jobs[j].response = "none", !.jobs[j].attempt = 0 ]
  IN  IF w.jobs[j].response \in Decodes
      THEN [ Goto(w, j, "check4") EXCEPT !.jobs[j].attempt = 0 ]
      ELSE Goto(w1, j, "except")

W_Check3(j) ==
  /\ jobs[j].pc = "check3"
  /\ WorkerStep(j, IF _is_request_active(World, j)
                   THEN process_response(World, j)
                   ELSE [ Goto(World, j, "finally") EXCEPT !.jobs[j].response = "none",
                                                           !.jobs[j].attempt = 0 ])

\* line 108: the final check before the callback
W_Check4(j) ==
  /\ jobs[j].pc = "check4"
  /\ WorkerStep(j, IF _is_request_active(World, j)
                   THEN Goto(World, j, "call_success")
                   ELSE [ Goto(World, j, "finally") EXCEPT !.jobs[j].response = "none" ])

\* line 109: on_success(image_bytes); a callback that raises lands in the
\* except clause of the worker
W_CallSuccess(j, raises) ==
  /\ jobs[j].pc = "call_success"
  /\ raises => jobs[j].cb = "probe"
  /\ WorkerStep(j, [ Goto(invoke_on_success(World, j, image_bytes(jobs[j])), j,
                          IF raises THEN "except" ELSE "finally")
                       EXCEPT !.jobs[j].response = "none" ])

\* line 116: the except clause checks the active set
W_Except(j) ==
  /\ jobs[j].pc = "except"
  /\ WorkerStep(j, Goto(World, j, IF _is_request_active(World, j) THEN "call_error" ELSE "finally"))

\* lines 117-118: on_error(e)
W_CallError(j) ==
  /\ jobs[j].pc = "call_error"
  /\ WorkerStep(j, Goto(invoke_on_error(World, j), j, "finally"))

\* lines 119-122: the finally clause
worker_finally(w, j) == [ Goto(w, j, "done") EXCEPT !.active_requests = @ \ {j} ]

W_Finally(j) ==
  /\ jobs[j].pc = "finally"
  /\ WorkerStep(j, worker_finally(World, j))

Worker(j) ==
  \/ W_Check1(j)
  \/ W_Payload(j)
  \/ W_Check2(j)
  \/ W_LoopCheck(j)
  \/ \E outcome \in HttpOutcomes : W_Post(j, outcome)
  \/ W_Check3(j)
  \/ W_Check4(j)
  \/ \E raises \in BOOLEAN : W_CallSuccess(j, raises)
  \/ W_Except(j)
  \/ W_CallError(j)
  \/ W_Finally(j)

(***************************************************************************)
(* The client driven through its public operations, as a caller that       *)
(* passes all four arguments and callbacks that only record the call.      *)
(***************************************************************************)
ClientPrompts == { build_prompt(<< <<"age", "Child">> >>) }

ClientGenerateImage(prompt, thread_starts) ==
  /\ current_request_id < MaxJobs
  /\ Commit(generate_image(World, prompt, "probe", thread_starts))
  /\ UNCHANGED << form_widgets, test_event, ui_pc, ui_prompt, last_op, last_arg >>

ClientCancel ==
  /\ Commit(cancel_pending_requests(World))
  /\ UNCHANGED << form_widgets, test_event, ui_pc, ui_prompt, last_op, last_arg >>

NextClient ==
  \/ \E p \in ClientPrompts : \E t \in BOOLEAN : ClientGenerateImage(p, t)
  \/ ClientCancel
  \/ \E j \in JobIds : Worker(j)

SpecClient == Init /\ [][NextClient]_vars

\* Threads are scheduled fairly and every HTTP attempt returns or times out.
SpecClientLive == SpecClient /\ \A j \in JobIds : WF_vars(Worker(j))

(***************************************************************************)
(* The client with the coordinator's two callbacks installed on its jobs,  *)
(* by a call that passes all four arguments.                               *)
(***************************************************************************)
CallbackGenerateImage(prompt, thread_starts) ==
  /\ current_request_id < MaxJobs
  /\ Commit(generate_image(World, prompt, "coordinator", thread_starts))
  /\ UNCHANGED << form_widgets, test_event, ui_pc, ui_prompt, last_op, last_arg >>

NextCallbacks ==
  \/ \E p \in ClientPrompts : \E t \in BOOLEAN : CallbackGenerateImage(p, t)
  \/ ClientCancel
  \/ \E j \in JobIds : Worker(j)

SpecCallbacks == Init /\ [][NextCallbacks]_vars

(***************************************************************************)
(* The state store driven through set_form_data by any caller, with the    *)
(* coordinator bound to it as in the application, beside the application's *)
(* own two calls with a literal map (_test_image_generation, reset_form).  *)
(* The caller's next call comes when the clock has run what the previous   *)
(* calls deferred.                                                         *)
(***************************************************************************)
FormPairs == UNION { { <<f, o>> : o \in ModelOptions(f) } : f \in ModelFields }

\* Every dict over the explored fields and options: full with sentinels, sparse,
\* in every insertion order.
FormMaps ==
  { d \in UNION { [ 1..n -> FormPairs ] : n \in 0..MaxFields } :
      \A i, k \in 1..Len(d) : i # k => d[i][1] # d[k][1] }

get_form_data(w) == w.state.form_data

ApiSetFormData(X) ==
  /\ ui_pc = "idle"
  /\ clock = << >>
  /\ LET w == set_form_data(World, X)
     IN  /\ Len(w.clock) <= MaxClock
         /\ Commit(w)
  /\ last_op' = "set_form_data"
  /\ last_arg' = X
  /\ UNCHANGED << form_widgets, test_event, ui_pc, ui_prompt >>

NextState ==
  \/ \E X \in FormMaps : ApiSetFormData(X)
  \/ TestImageGeneration
  \/ ResetForm
  \/ GenerateBegin
  \/ \E t \in BOOLEAN : GenerateSubmit(t)

SpecState == Init /\ [][NextState]_vars

(***************************************************************************)
(* src/data/state.py driven through its API by a caller on a fresh         *)
(* ApplicationState.  The caller's callbacks only record that they were    *)
(* called: "returns" returns, "raises" raises an Exception.                *)
(***************************************************************************)
Probes == { "returns", "raises" }

Raises(callback) == callback = "raises"

\* self._general_callback = None
Unbound == "None"

NoCalls == [ calls |-> << >>, raised |-> FALSE ]

\* _notify_observers with the try/except inside the loop left out: the first
\* exception ends the loop and leaves the mutator.
RECURSIVE notify_loop_uncaught(_, _, _)
notify_loop_uncaught(callbacks, event_type, args) ==
  IF callbacks = << >> THEN NoCalls
  ELSE LET call == [ callee |-> Head(callbacks), event |-> event_type, args |-> args ]
           rest == notify_loop_uncaught(Tail(callbacks), event_type, args)
       IN  IF Raises(Head(callbacks))
           THEN [ calls |-> << call >>, raised |-> TRUE ]
           ELSE [ calls |-> << call >> \o rest.calls, raised |-> rest.raised ]

\* The loop of _notify_observers: callback(*args) inside try/except Exception,
\* so a callback that raises is logged and the next one is called.
RECURSIVE notify_loop(_, _, _)
notify_loop(callbacks, event_type, args) ==
  IF callbacks = << >> THEN NoCalls
  ELSE LET call == [ callee |-> Head(callbacks), event |-> event_type, args |-> args ]
           rest == notify_loop(Tail(callbacks), event_type, args)
       IN  [ calls |-> << call >> \o rest.calls, raised |-> rest.raised ]

_notify_observers(obs, event_type, args) == notify_loop(obs[event_type], event_type, args)

\* self._general_callback(field, value) inside try/except Exception; calling
\* None raises TypeError, which the same except catches.
call_general_callback(cb, field_name, new_value) ==
  IF cb = Unbound THEN NoCalls
  ELSE [ calls |-> << [ callee |-> cb, event |-> "general",
                        args |-> << field_name, new_value >> ] >>,
         raised |-> FALSE ]

\* The mutators state.py defines (the second set_current_prompt is the one
\* in force): the field each stores, the event type it notifies, and whether
\* it goes on to call the general callback.
FormMutators == { "set_form_data", "update_form_field" }

ScalarMutators ==
  { "set_current_prompt", "set_current_image", "set_generating_image",
    "set_api_status", "set_last_generation_time" }

FieldOf(M) ==
  CASE M = "set_form_data" -> "form_data"
    [] M = "update_form_field" -> "form_data"
    [] M = "set_current_prompt" -> "current_prompt"
    [] M = "set_current_image" -> "current_image"
    [] M = "set_generating_image" -> "generating_image"
    [] M = "set_api_status" -> "api_status"
    [] M = "set_last_generation_time" -> "last_generation_time"

EventOf(M) ==
  CASE M = "set_form_data" -> "form_data"
    [] M = "update_form_field" -> "form_field_changed"
    [] M = "set_current_prompt" -> "current_prompt"
    [] M = "set_current_image" -> "current_image"
    [] M = "set_generating_image" -> "generating_image"
    [] M = "set_api_status" -> "api_status_changed"
    [] M = "set_last_generation_time" -> "generation_time_updated"

CallsGeneral(M) ==
  M \in { "set_form_data", "set_current_prompt", "set_current_image",
          "set_generating_image" }

\* update_form_field that removes the entry when the value is the sentinel.
update_form_field_removing(form_data, field_name, value) ==
  IF value = "?"
  THEN SelectSeq(form_data, LAMBDA e : e[1] # field_name)
  ELSE Put(form_data, field_name, value)

\* update_form_field, lines 53-56: self._state['form_data'][field_name] = value
update_form_field(form_data, field_name, value) == Put(form_data, field_name, value)

\* What a mutator stores under the lock.
Store(st, M, args) ==
  IF M = "update_form_field"
  THEN [ st EXCEPT !.form_data = update_form_field(@, args[1], args[2]) ]
  ELSE [ st EXCEPT ![FieldOf(M)] = args[1] ]

\* What a mutator calls after it has released the lock.
Notify(M, args) ==
  LET n1 == _notify_observers(observers, EventOf(M), args)
      n2 == IF n1.raised \/ ~CallsGeneral(M) THEN NoCalls
            ELSE call_general_callback(general_callback, FieldOf(M), args[1])
  IN  [ calls |-> n1.calls \o n2.calls, raised |-> n1.raised \/ n2.raised ]

\* The dicts and values the caller passes.
StoreFields == { SchemaOrder[1], SchemaOrder[2] }

StoreOptions(f) == { "?", DEMOGRAPHICS_FIELDS[f].options[2] }

StorePairs == UNION { { <<f, o>> : o \in StoreOptions(f) } : f \in StoreFields }

StoreMaps ==
  { d \in UNION { [ 1..n -> StorePairs ] : n \in 0..Cardinality(StoreFields) } :
      \A i, k \in 1..Len(d) : i # k => d[i][1] # d[k][1] }

ArgsOf(M) ==
  CASE M = "set_form_data" -> { << X >> : X \in StoreMaps }
    [] M = "update_form_field" -> StorePairs
    [] M = "set_current_prompt" -> { << << >> >>, << build_prompt(<< >>) >> }
    [] M = "set_current_image" -> { << None >>, << << "image" >> >> }
    [] M = "set_generating_image" -> { << TRUE >>, << FALSE >> }
    [] M = "set_api_status" -> { << "generating" >>, << "error" >> }
    [] M = "set_last_generation_time" -> { << None >>, << << "timestamp" >> >> }

storeFrame == << form_widgets, panel, clock, test_event, ui_pc, ui_prompt,
                 current_request_id, active_requests, jobs, success_calls,
                 error_calls, cancelled, threadVars >>

\* add_observer(event_type, callback)
AddObserver(e, callback) ==
  /\ \A x \in EventTypes : \A i \in 1..Len(observers[x]) : observers[x][i] # callback
  /\ observers' = [ observers EXCEPT ![e] = Append(@, callback) ]
  /\ UNCHANGED << state, general_callback, notified, returned, held, aliases,
                  last_op, last_arg, storeFrame >>

\* bind_callback(callback)
BindCallback(callback) ==
  /\ general_callback = Unbound
  /\ general_callback' = callback
  /\ UNCHANGED << state, observers, notified, returned, held, aliases,
                  last_op, last_arg, storeFrame >>

\* One call M(*args) by the caller, from the store under the lock to the
\* return.
ApiCall(M, args) ==
  /\ state' = Store(state, M, args)
  /\ notified' = Notify(M, args).calls
  /\ returned' = None
  /\ last_op' = IF Notify(M, args).raised THEN "raised" ELSE M
  /\ last_arg' = args
  /\ UNCHANGED << observers, general_callback, held, aliases, storeFrame >>

\* generate_new_random_seed() as a call of the state API: the draw is new_seed.
ApiGenerateNewRandomSeed(new_seed) ==
  /\ state' = generate_new_random_seed([ state |-> state ], new_seed).state
  /\ notified' = << >>
  /\ returned' = new_seed
  /\ last_op' = "generate_new_random_seed"
  /\ last_arg' = << state.current_seed >>
  /\ UNCHANGED << observers, general_callback, held, aliases, storeFrame >>

\* A fresh ApplicationState(): nothing registered, nothing bound.
InitStore ==
  /\ observers = NoObservers
  /\ general_callback = Unbound
  /\ InitStoreVars
  /\ InitApp

Registration ==
  \/ \E e \in EventTypes : \E callback \in Probes : AddObserver(e, callback)
  \/ \E callback \in Probes : BindCallback(callback)

\* The caller works the scalar fields and the seed.
NextStore ==
  \/ Registration
  \/ \E M \in ScalarMutators : \E args \in ArgsOf(M) : ApiCall(M, args)
  \/ \E n \in 1..MaxSeed : ApiGenerateNewRandomSeed(n)

SpecStore == InitStore /\ [][NextStore]_vars

\* The caller works the form data.
NextForm ==
  \/ Registration
  \/ \E M \in FormMutators : \E args \in ArgsOf(M) : ApiCall(M, args)

SpecForm == InitStore /\ [][NextForm]_vars

(***************************************************************************)
(* The caller keeps the dict it passed to set_form_data ("arg") and the    *)
(* dict get_form_data returned ("got") and writes into them.  aliases      *)
(* tells which of the two is the object stored in _state['form_data'].     *)
(***************************************************************************)
Held == { "arg", "got" }

\* set_form_data storing the caller's dict itself.
set_form_data_aliases_no_copy(al) == { "arg" }

\* self._state['form_data'] = form_data.copy(): the stored object is a new
\* dict, which no caller holds.
set_form_data_aliases(al) == {}

\* return self._state.get('form_data', {}).copy(): a new dict again.
get_form_data_aliases(al) == al \ { "got" }

CallerSetFormData(X) ==
  /\ state' = Store(state, "set_form_data", << X >>)
  /\ notified' = Notify("set_form_data", << X >>).calls
  /\ returned' = None
  /\ held' = [ held EXCEPT !.arg = X ]
  /\ aliases' = set_form_data_aliases(aliases)
  /\ last_op' = "set_form_data"
  /\ last_arg' = << X >>
  /\ UNCHANGED << observers, general_callback, storeFrame >>

CallerGetFormData ==
  /\ returned' = get_form_data([ state |-> state ])
  /\ held' = [ held EXCEPT !.got = get_form_data([ state |-> state ]) ]
  /\ aliases' = get_form_data_aliases(aliases)
  /\ notified' = << >>
  /\ last_op' = "get_form_data"
  /\ last_arg' = << >>
  /\ UNCHANGED << state, observers, general_callback, storeFrame >>

\* held[name][field_name] = value, by the caller, outside the state API: the
\* write lands in every name of the same object.
CallerWrites(name, field_name, value) ==
  /\ held' = [ h \in Held |->
                 IF h = name \/ ( name \in aliases /\ h \in aliases )
                 THEN Put(held[name], field_name, value) ELSE held[h] ]
  /\ state' = IF name \in aliases
              THEN [ state EXCEPT !.form_data = Put(held[name], field_name, value) ]
              ELSE state
  /\ last_op' = "caller_writes"
  /\ last_arg' = << field_name, value >>
  /\ UNCHANGED << observers, general_callback, notified, returned, aliases,
                  storeFrame >>

NextAlias ==
  \/ \E X \in StoreMaps : CallerSetFormData(X)
  \/ CallerGetFormData
  \/ \E h \in Held : \E e \in StorePairs : CallerWrites(h, e[1], e[2])

SpecAlias == InitStore /\ [][NextAlias]_vars

(***************************************************************************)
(* The state API under two threads.  A call is a frame on its thread's     *)
(* stack; "with self._lock:" is an acquire step and a step that works      *)
(* under the lock and releases it; the observers and the general callback  *)
(* run after it, and the calls they make are frames on top of the caller.  *)
(* The observers are the ones the application registers.                   *)
(***************************************************************************)
Setters == { "set_generating_image", "set_form_data", "set_current_prompt" }

Getters == { "get_current_prompt" }

\* The setters the two threads call, and their arguments.
ThreadMutators == { "set_generating_image", "set_form_data" }

ThreadArgs(M) ==
  CASE M = "set_generating_image" -> BOOLEAN
    [] M = "set_form_data" ->
         { << >>,
           << << SchemaOrder[1], DEMOGRAPHICS_FIELDS[SchemaOrder[1]].options[2] >> >> }

Frame(op, arg, pc) == [ op |-> op, arg |-> arg, pc |-> pc, local |-> << >> ]

Top(t) == threads[t][Len(threads[t])]

At(t, ops, pc) == threads[t] # << >> /\ Top(t).op \in ops /\ Top(t).pc = pc

SetPc(stack, pc) == [ stack EXCEPT ![Len(stack)].pc = pc ]

Pop(stack) == SubSeq(stack, 1, Len(stack) - 1)

\* The end of a setter's "with self._lock:" block that is not the end: the
\* lock is kept through the notification.
lock_after_store_held(t) == t

\* The end of a setter's "with self._lock:" block releases the lock.
lock_after_store(t) == "free"

\* callback(*args) for the callbacks the application registers.
run_observer(w, callee, arg) ==
  CASE callee = "_on_image_change" -> _on_image_change(w, arg)
    [] callee = "_on_prompt_change" -> _on_prompt_change(w, arg)
    [] callee = "_on_generation_status_change" -> _on_generation_status_change(w, arg)

RECURSIVE run_observers(_, _)
run_observers(w, calls) ==
  IF calls = << >> THEN w
  ELSE run_observers(run_observer(w, Head(calls).callee, Head(calls).args[1]), Tail(calls))

threadFrame == << form_widgets, test_event, ui_pc, ui_prompt, current_request_id,
                  jobs, success_calls, error_calls, last_op, last_arg, storeVars >>

\* Thread t calls M(arg).
T_Call(t, M, arg) ==
  /\ threads[t] = << >>
  /\ M = "set_form_data" => Len(clock) < MaxClock
  /\ threads' = [ threads EXCEPT ![t] = << Frame(M, arg, "lock") >> ]
  /\ UNCHANGED << lock, state, panel, clock, active_requests, cancelled, threadFrame >>

\* with self._lock: the thread waits until the lock is free.
T_Acquire(t) ==
  /\ At(t, Setters \cup Getters, "lock")
  /\ lock = "free"
  /\ lock' = t
  /\ threads' = [ threads EXCEPT ![t] = SetPc(@, "locked") ]
  /\ UNCHANGED << state, panel, clock, active_requests, cancelled, threadFrame >>

\* self._state[field] = value, and the end of the with block.
T_Store(t) ==
  /\ At(t, Setters, "locked")
  /\ state' = Store(state, Top(t).op, << Top(t).arg >>)
  /\ lock' = lock_after_store(t)
  /\ threads' = [ threads EXCEPT ![t] = SetPc(@, "notify") ]
  /\ UNCHANGED << panel, clock, active_requests, cancelled, threadFrame >>

\* self._notify_observers(event, value)
T_Notify(t) ==
  /\ At(t, Setters, "notify")
  /\ panel' = run_observers(World,
                 _notify_observers(observers, EventOf(Top(t).op), << Top(t).arg >>).calls).panel
  /\ threads' = [ threads EXCEPT ![t] = SetPc(@, "callback") ]
  /\ UNCHANGED << lock, state, clock, active_requests, cancelled, threadFrame >>

\* self._general_callback(field, value), which is MainScreen._on_state_change:
\* on non-empty form data it calls set_current_prompt(build_prompt(form_data))
\* and goes on to _trigger_image_generation; otherwise it logs, and the setter
\* returns.
T_Callback(t) ==
  /\ At(t, Setters, "callback")
  /\ threads' = [ threads EXCEPT ![t] =
       IF general_callback = "_on_state_change" /\ Top(t).op = "set_form_data"
          /\ Truthy(Top(t).arg)
       THEN Append(SetPc(@, "trigger"),
                   Frame("set_current_prompt", build_prompt(Top(t).arg), "lock"))
       ELSE Pop(@) ]
  /\ UNCHANGED << lock, state, panel, clock, active_requests, cancelled, threadFrame >>

\* _trigger_image_generation: cancel_pending_requests(), then
\* prompt = self.app_state.get_current_prompt()
T_Trigger(t) ==
  /\ At(t, { "set_form_data" }, "trigger")
  /\ active_requests' = cancel_pending_requests(World).active_requests
  /\ cancelled' = cancel_pending_requests(World).cancelled
  /\ threads' = [ threads EXCEPT ![t] =
       Append(SetPc(@, "schedule"), Frame("get_current_prompt", << >>, "lock")) ]
  /\ UNCHANGED << lock, state, panel, clock, threadFrame >>

\* get_current_prompt under the lock: the value goes to the caller's local.
T_Read(t) ==
  /\ At(t, Getters, "locked")
  /\ lock' = "free"
  /\ threads' = [ threads EXCEPT ![t] =
       [ Pop(@) EXCEPT ![Len(@) - 1].local = state.current_prompt ] ]
  /\ UNCHANGED << state, panel, clock, active_requests, cancelled, threadFrame >>

\* if prompt: Clock.schedule_once(lambda dt: self._generate_image_async(prompt), 0.1)
T_Schedule(t) ==
  /\ At(t, { "set_form_data" }, "schedule")
  /\ clock' = IF Truthy(Top(t).local)
              THEN Append(clock, [ kind |-> "generate", prompt |-> Top(t).local ])
              ELSE clock
  /\ threads' = [ threads EXCEPT ![t] = Pop(@) ]
  /\ UNCHANGED << lock, state, panel, active_requests, cancelled, threadFrame >>

\* The clock fires _generate_image_async(prompt) on the UI thread, which
\* begins with set_generating_image(True).
T_ClockFires ==
  /\ threads["ui"] = << >>
  /\ clock # << >>
  /\ Head(clock).kind = "generate"
  /\ clock' = Tail(clock)
  /\ threads' = [ threads EXCEPT !["ui"] =
       << Frame("_generate_image_async", Head(clock).prompt, "submit"),
          Frame("set_generating_image", TRUE, "lock") >> ]
  /\ UNCHANGED << lock, state, panel, active_requests, cancelled, threadFrame >>

\* The call of generate_image raises TypeError, and the except clause calls
\* set_generating_image(False).
T_Submit(t) ==
  /\ At(t, { "_generate_image_async" }, "submit")
  /\ ~CallBinds(coordinator_call_args, generate_image_params)
  /\ threads' = [ threads EXCEPT ![t] =
       Append(SetPc(@, "except"), Frame("set_generating_image", FALSE, "lock")) ]
  /\ UNCHANGED << lock, state, panel, clock, active_requests, cancelled, threadFrame >>

T_Except(t) ==
  /\ At(t, { "_generate_image_async" }, "except")
  /\ threads' = [ threads EXCEPT ![t] = Pop(@) ]
  /\ UNCHANGED << lock, state, panel, clock, active_requests, cancelled, threadFrame >>

NextThreads ==
  \/ \E t \in Threads : \E M \in ThreadMutators : \E arg \in ThreadArgs(M) : T_Call(t, M, arg)
  \/ \E t \in Threads : T_Acquire(t)
  \/ \E t \in Threads : T_Store(t)
  \/ \E t \in Threads : T_Notify(t)
  \/ \E t \in Threads : T_Callback(t)
  \/ \E t \in Threads : T_Trigger(t)
  \/ \E t \in Threads : T_Read(t)
  \/ \E t \in Threads : T_Schedule(t)
  \/ T_ClockFires
  \/ \E t \in Threads : T_Submit(t)
  \/ \E t \in Threads : T_Except(t)

SpecThreads == Init /\ [][NextThreads]_vars

(***************************************************************************)
(* The reading operations of the state API that call one another, beside   *)
(* the setters above: get_form_data, has_any_selections, which calls it,   *)
(* and get_state_summary, which calls has_any_selections inside its own    *)
(* "with self._lock:" block.  threading.Lock is not reentrant.             *)
(***************************************************************************)
SummaryOps == { "get_state_summary", "has_any_selections", "get_form_data" }

\* The operations that begin with "with self._lock:".
SummaryLocking == { "get_state_summary", "get_form_data" }

\* Thread t calls op().
S_Call(t, op) ==
  /\ threads[t] = << >>
  /\ threads' = [ threads EXCEPT ![t] =
       << Frame(op, << >>, IF op \in SummaryLocking THEN "lock" ELSE "call") >> ]
  /\ UNCHANGED << lock, state, panel, clock, active_requests, cancelled, threadFrame >>

\* with self._lock: the thread waits until the lock is free, whoever holds it.
S_Acquire(t) ==
  /\ At(t, SummaryLocking, "lock")
  /\ lock = "free"
  /\ lock' = t
  /\ threads' = [ threads EXCEPT ![t] = SetPc(@, "locked") ]
  /\ UNCHANGED << state, panel, clock, active_requests, cancelled, threadFrame >>

\* get_state_summary, lines 299-305: under the lock it reads the fields and
\* calls self.has_any_selections().
S_Summary(t) ==
  /\ At(t, { "get_state_summary" }, "locked")
  /\ threads' = [ threads EXCEPT ![t] =
       Append(SetPc(@, "summary"), Frame("has_any_selections", << >>, "call")) ]
  /\ UNCHANGED << lock, state, panel, clock, active_requests, cancelled, threadFrame >>

\* has_any_selections, line 167: form_data = self.get_form_data()
S_HasAny(t) ==
  /\ At(t, { "has_any_selections" }, "call")
  /\ threads' = [ threads EXCEPT ![t] =
       Append(SetPc(@, "any"), Frame("get_form_data", << >>, "lock")) ]
  /\ UNCHANGED << lock, state, panel, clock, active_requests, cancelled, threadFrame >>

\* get_form_data, lines 67-68: the copy is returned and the lock released.
S_GetFormData(t) ==
  /\ At(t, { "get_form_data" }, "locked")
  /\ lock' = "free"
  /\ threads' = [ threads EXCEPT ![t] =
       IF Len(@) = 1 THEN << >>
       ELSE [ Pop(@) EXCEPT ![Len(@) - 1].local = get_form_data(World) ] ]
  /\ UNCHANGED << state, panel, clock, active_requests, cancelled, threadFrame >>

\* has_any_selections, line 168, returns; when get_state_summary called it,
\* the summary is complete, its with block ends and it returns too.
S_Any(t) ==
  /\ At(t, { "has_any_selections" }, "any")
  /\ lock' = IF Len(threads[t]) = 1 THEN lock ELSE "free"
  /\ threads' = [ threads EXCEPT ![t] = << >> ]
  /\ UNCHANGED << state, panel, clock, active_requests, cancelled, threadFrame >>

NextSummary ==
  \/ NextThreads
  \/ \E t \in Threads : \E op \in SummaryOps : S_Call(t, op)
  \/ \E t \in Threads : S_Acquire(t)
  \/ \E t \in Threads : S_Summary(t)
  \/ \E t \in Threads : S_HasAny(t)
  \/ \E t \in Threads : S_GetFormData(t)
  \/ \E t \in Threads : S_Any(t)

SpecSummary == Init /\ [][NextSummary]_vars

(***************************************************************************)
(* The client driven by a caller that passes the state store as app_state, *)
(* while the seed is changed through the store.  The caller notes the id   *)
(* generate_image gave the job and the seed the store held at the call.    *)
(***************************************************************************)
SeedGenerateImage(prompt, thread_starts) ==
  /\ current_request_id < MaxJobs
  /\ Commit(generate_image(World, prompt, "probe", thread_starts))
  /\ last_op' = "generate_image"
  /\ last_arg' = << current_request_id, get_current_seed(World) >>
  /\ UNCHANGED << form_widgets, test_event, ui_pc, ui_prompt >>

\* generate_new_random_seed() by the UI thread, between the worker's steps.
SeedChanged(new_seed) ==
  /\ Commit(generate_new_random_seed(World, new_seed))
  /\ UNCHANGED << form_widgets, test_event, ui_pc, ui_prompt, last_op, last_arg >>

NextSeed ==
  \/ \E p \in ClientPrompts : \E t \in BOOLEAN : SeedGenerateImage(p, t)
  \/ \E n \in 1..MaxSeed : SeedChanged(n)
  \/ \E j \in JobIds : Worker(j)

SpecSeed == Init /\ [][NextSeed]_vars

(***************************************************************************)
(* The seed of the state store, driven through its three calls by a caller *)
(* on a fresh ApplicationState.                                            *)
(***************************************************************************)
\* The integers the caller passes to set_current_seed: negative, zero,
\* positive, the default.
SeedArgs == ( (0 - MaxSeed)..MaxSeed ) \cup { DEFAULT_SEED }

ApiSetCurrentSeed(n) ==
  /\ state' = set_current_seed([ state |-> state ], n).state
  /\ notified' = << >>
  /\ returned' = None
  /\ last_op' = "set_current_seed"
  /\ last_arg' = << n >>
  /\ UNCHANGED << observers, general_callback, held, aliases, storeFrame >>

ApiGetCurrentSeed ==
  /\ returned' = get_current_seed([ state |-> state ])
  /\ notified' = << >>
  /\ last_op' = "get_current_seed"
  /\ last_arg' = << >>
  /\ UNCHANGED << state, observers, general_callback, held, aliases, storeFrame >>

NextSeedStore ==
  \/ Registration
  \/ \E n \in SeedArgs : ApiSetCurrentSeed(n)
  \/ ApiGetCurrentSeed
  \/ \E n \in 1..MaxSeed : ApiGenerateNewRandomSeed(n)

SpecSeedStore == InitStore /\ [][NextSeedStore]_vars

(***************************************************************************)
(* The client driven by a caller that submits a job when the one before it *)
(* has ended, and may cancel at any time.  notified is the log of the HTTP *)
(* POSTs made for the job, each by what it came to.                        *)
(***************************************************************************)
Ended == { "unborn", "nothread", "done" }

RetryGenerateImage(prompt, thread_starts) ==
  /\ current_request_id < MaxJobs
  /\ \A j \in JobIds : jobs[j].pc \in Ended
  /\ CommitWorld(generate_image(World, prompt, "probe", thread_starts))
  /\ notified' = << >>
  /\ UNCHANGED << form_widgets, test_event, ui_pc, ui_prompt, last_op, last_arg,
                  observers, general_callback, returned, held, aliases, threadVars >>

\* requests.post(...) of attempt jobs[j].attempt, and what follows it.
RetryPost(j, outcome) ==
  /\ jobs[j].pc = "post"
  /\ CommitWorld(make_api_request_attempt(World, j, outcome))
  /\ notified' = Append(notified, outcome)
  /\ UNCHANGED << form_widgets, test_event, ui_pc, ui_prompt, last_op, last_arg,
                  observers, general_callback, returned, held, aliases, threadVars >>

RetryWorker(j) ==
  \/ W_Check1(j)
  \/ W_Payload(j)
  \/ W_Check2(j)
  \/ W_LoopCheck(j)
  \/ \E outcome \in HttpOutcomes : RetryPost(j, outcome)
  \/ W_Check3(j)
  \/ W_Check4(j)
  \/ \E raises \in BOOLEAN : W_CallSuccess(j, raises)
  \/ W_Except(j)
  \/ W_CallError(j)
  \/ W_Finally(j)

NextRetry ==
  \/ \E p \in ClientPrompts : \E t \in BOOLEAN : RetryGenerateImage(p, t)
  \/ ClientCancel
  \/ \E j \in JobIds : RetryWorker(j)

SpecRetry == Init /\ [][NextRetry]_vars

(***************************************************************************)
(* FormToPromptMapper.build_prompt applied to the selection maps a caller  *)
(* holds: two maps over three fields of the schema, each entry the         *)
(* sentinel or a label, in every insertion order.                          *)
(***************************************************************************)
MapperFields == { "age", "gender", "income" }

MapperOptions(f) == { "?", DEMOGRAPHICS_FIELDS[f].options[2] }

MapperPairs == UNION { { <<f, o>> : o \in MapperOptions(f) } : f \in MapperFields }

MapperMaps ==
  { d \in UNION { [ 1..n -> MapperPairs ] : n \in 0..Cardinality(MapperFields) } :
      \A i, k \in 1..Len(d) : i # k => d[i][1] # d[k][1] }

InitMapper ==
  /\ observers = NoObservers
  /\ general_callback = Unbound
  /\ notified = << >>
  /\ returned = None
  /\ held \in [ Held -> MapperMaps ]
  /\ aliases = {}
  /\ threads = [ t \in Threads |-> << >> ]
  /\ lock = "free"
  /\ InitApp

\* returned = mapper.build_prompt(held[name])
MapperBuildPrompt(name) ==
  /\ returned' = build_prompt(held[name])
  /\ last_op' = "build_prompt"
  /\ last_arg' = held[name]
  /\ UNCHANGED << state, observers, general_callback, notified, held, aliases,
                  storeFrame >>

NextMapper == \E name \in Held : MapperBuildPrompt(name)

SpecMapper == InitMapper /\ [][NextMapper]_vars

(***************************************************************************)
(* FormToPromptMapper.map_selection_to_prompt applied to one field id and   *)
(* one selection: the ids of the schema and two that it does not have, the *)
(* sentinel, no selection, labels of the schema and labels of none.        *)
(***************************************************************************)
PhraseFields == SchemaFields \cup { "hair", "Age" }

PhraseSelections ==
  { "?", NoSelection, "Child", "Male", "Senior", "Nonbinary", "other", "$200,000+" }

InitPhrase ==
  /\ observers = NoObservers
  /\ general_callback = Unbound
  /\ notified = << >>
  /\ returned = None
  /\ held \in { [ arg |-> << f, o >>, got |-> << >> ] :
                   f \in PhraseFields, o \in PhraseSelections }
  /\ aliases = {}
  /\ threads = [ t \in Threads |-> << >> ]
  /\ lock = "free"
  /\ InitApp

\* returned = mapper.map_selection_to_prompt(*held.arg)
MapperPhraseFor ==
  /\ returned' = map_selection_to_prompt(held.arg[1], held.arg[2])
  /\ last_op' = "map_selection_to_prompt"
  /\ last_arg' = held.arg
  /\ UNCHANGED << state, observers, general_callback, notified, held, aliases,
                  storeFrame >>

SpecPhrase == InitPhrase /\ [][MapperPhraseFor]_vars

(***************************************************************************)
(* The image panel as the observer of current_image, with images set one   *)
(* after the other, until the archive holds one file more than the cap.    *)
(***************************************************************************)
ArchiveImages == { None, << PNG_MAGIC, "image" >>, << "GIF89a" >> }

ArchiveSetCurrentImage(image_data) ==
  /\ panel.archive <= MAX_ARCHIVED_IMAGES
  /\ Commit(set_current_image(World, image_data))
  /\ last_op' = "set_current_image"
  /\ last_arg' = image_data
  /\ UNCHANGED << form_widgets, test_event, ui_pc, ui_prompt >>

\* The clock fires the fade_in that _show_remix_button or fade_in scheduled.
ArchiveFadeIn ==
  /\ panel.fade_in_scheduled
  /\ Commit(fade_in(World))
  /\ last_op' = "fade_in"
  /\ last_arg' = << >>
  /\ UNCHANGED << form_widgets, test_event, ui_pc, ui_prompt >>

NextArchive ==
  \/ \E image_data \in ArchiveImages : ArchiveSetCurrentImage(image_data)
  \/ ArchiveFadeIn

SpecArchive == Init /\ [][NextArchive]_vars

(***************************************************************************)
(* generate_image called by two threads at once.  The block under          *)
(* request_lock is one step; the thread holds the id in a local until it   *)
(* has started the worker.                                                 *)
(***************************************************************************)
G_Call(t, prompt) ==
  /\ threads[t] = << >>
  /\ current_request_id < MaxJobs
  /\ threads' = [ threads EXCEPT ![t] = << Frame("generate_image", prompt, "lock") >> ]
  /\ UNCHANGED << lock, appVars, current_request_id, active_requests, jobs,
                  success_calls, error_calls, cancelled, last_op, last_arg, storeVars >>

G_Allocate(t) ==
  /\ At(t, { "generate_image" }, "lock")
  /\ current_request_id < MaxJobs
  /\ CommitWorld(allocate_request_id(World))
  /\ threads' = [ threads EXCEPT ![t] =
       << [ Top(t) EXCEPT !.pc = "start", !.local = current_request_id ] >> ]
  /\ UNCHANGED << lock, form_widgets, test_event, ui_pc, ui_prompt, last_op, last_arg,
                  storeVars >>

G_Start(t, thread_starts) ==
  /\ At(t, { "generate_image" }, "start")
  /\ CommitWorld(start_worker(World, Top(t).local, Top(t).arg, "probe", thread_starts))
  /\ threads' = [ threads EXCEPT ![t] = << >> ]
  /\ UNCHANGED << lock, form_widgets, test_event, ui_pc, ui_prompt, last_op, last_arg,
                  storeVars >>

NextAllocate ==
  \/ \E t \in Threads : \E p \in ClientPrompts : G_Call(t, p)
  \/ \E t \in Threads : G_Allocate(t)
  \/ \E t \in Threads : \E s \in BOOLEAN : G_Start(t, s)
  \/ \E j \in JobIds : Worker(j)

SpecAllocate == Init /\ [][NextAllocate]_vars

(***************************************************************************)
(* The form panel and the coordinator beside jobs that carry the           *)
(* coordinator's callbacks, submitted by a call that passes all four       *)
(* arguments while no other job is running.                                *)
(***************************************************************************)
SelectGenerateImage(prompt, thread_starts) ==
  /\ ui_pc = "idle"
  /\ current_request_id < MaxJobs
  /\ \A j \in JobIds : jobs[j].pc \in Ended
  /\ Commit(generate_image(World, prompt, "coordinator", thread_starts))
  /\ last_op' = "generate_image"
  /\ last_arg' = prompt
  /\ UNCHANGED << form_widgets, test_event, ui_pc, ui_prompt >>

NextSelect ==
  \/ \E f \in ModelFields : \E opt \in ModelOptions(f) : OptionSelected(f, opt)
  \/ ResetForm
  \/ GenerateBegin
  \/ \E t \in BOOLEAN : GenerateSubmit(t)
  \/ \E p \in ClientPrompts : \E t \in BOOLEAN : SelectGenerateImage(p, t)
  \/ \E j \in JobIds : Worker(j)

SpecSelect == Init /\ [][NextSelect]_vars

(***************************************************************************)
(* The image panel as the observer of generating_image and current_prompt: *)
(* a caller sets the flag, to either value and in any order, and the       *)
(* prompt, and the clock fires the interval events that are scheduled.     *)
(***************************************************************************)
StatusPrompts == { << >>, build_prompt(<< >>) } \cup ClientPrompts

StatusSetCurrentPrompt(prompt) ==
  /\ Commit(set_current_prompt(World, prompt))
  /\ last_op' = "set_current_prompt"
  /\ last_arg' = << prompt >>
  /\ UNCHANGED << form_widgets, test_event, ui_pc, ui_prompt >>

StatusSetGeneratingImage(is_generating) ==
  /\ Commit(set_generating_image(World, is_generating))
  /\ last_op' = "set_generating_image"
  /\ last_arg' = << is_generating >>
  /\ UNCHANGED << form_widgets, test_event, ui_pc, ui_prompt >>

\* One interval event fires: the one animation_event refers to, or one whose
\* reference was replaced.
StatusAnimate ==
  /\ panel.animation_event = "scheduled" \/ panel.replaced_events
  /\ Commit(_animate_generating_text(World))
  /\ last_op' = "_animate_generating_text"
  /\ last_arg' = << >>
  /\ UNCHANGED << form_widgets, test_event, ui_pc, ui_prompt >>

NextStatus ==
  \/ \E is_generating \in BOOLEAN : StatusSetGeneratingImage(is_generating)
  \/ \E prompt \in StatusPrompts : StatusSetCurrentPrompt(prompt)
  \/ StatusAnimate

SpecStatus == Init /\ [][NextStatus]_vars

(***************************************************************************)
(* Properties.                                                             *)
(***************************************************************************)
Calls(j) == success_calls[j] + error_calls[j]

\* C1 (SpecClient): once cancel_pending_requests has returned with job j in the
\* active set, neither on_success nor on_error of j is invoked any more.
C1_NoCallbackAfterCancel ==
  [][ \A j \in JobIds :
        cancelled[j] => /\ success_calls'[j] = success_calls[j]
                        /\ error_calls'[j] = error_calls[j] ]_vars

C3_AtMostOneCallback == \A j \in JobIds : Calls(j) <= 1

\* C4 (SpecClientLive): a submitted job that is never cancelled eventually has
\* on_success or on_error invoked, whatever the HTTP outcomes.  A job stays
\* submitted, cancelled and called once it is, so "each submitted job comes to
\* be cancelled or called" is "from some point on every submitted job is".
C4_EventuallyCallback ==
  <>[]( \A j \in JobIds : (jobs[j].pc # "unborn") => (cancelled[j] \/ Calls(j) > 0) )

\* A job that was never cancelled ran to its end on an error and had on_error
\* invoked.
C4_Witness ==
  \E j \in JobIds : /\ jobs[j].pc = "done"
                    /\ ~cancelled[j]
                    /\ error_calls[j] = 1
                    /\ jobs[j].cb = "probe"

\* C5 (Spec), for the non-empty maps: when the coordinator has handled a
\* form_data event, current_prompt is build_prompt of the new form data and the
\* submission of that prompt is scheduled; when the scheduled submission has
\* run, a job carrying the prompt is in the active set.
C5_FormDataSubmitsJob ==
  [][ /\ ( /\ ui_pc = "idle" /\ ui_pc' = "idle"
           /\ last_op' \in { "select", "test" }
           /\ vars' # vars
           /\ last_arg' # << >> )
         => /\ state'.current_prompt = build_prompt(last_arg')
            /\ clock' # << >>
            /\ clock'[Len(clock')] = [ kind |-> "generate", prompt |-> build_prompt(last_arg') ]
      /\ ( ui_pc = "submit" /\ ui_pc' = "idle" )
         => \E id \in active_requests' : jobs'[id].prompt = ui_prompt ]_vars

\* C6 (Spec): generating_image = true implies api_status = "generating".
C6_GeneratingImpliesStatus ==
  state.generating_image => state.api_status = "generating"

\* C7 (SpecCallbacks): when the coordinator's on_error has run, generating_image
\* is false and api_status is "error"; when its on_success has run,
\* current_image holds the delivered bytes and generating_image is false.
C7_CallbackEffects ==
  [][ \A j \in JobIds :
        jobs'[j].cb = "coordinator" =>
          /\ error_calls'[j] > error_calls[j]
               => ~state'.generating_image /\ state'.api_status = "error"
          /\ success_calls'[j] > success_calls[j]
               => ~state'.generating_image /\ state'.current_image = image_bytes(jobs[j])
    ]_vars

C9_PromptMatchesFormData ==
  ( ui_pc = "idle" /\ last_op \in { "select", "reset", "test" } )
    => state.current_prompt = build_prompt(get_form_data(World))

\* C9 (Spec), amended: it does after a selection and after the coordinator's
\* handling; after reset_form the form data is empty and current_prompt is
\* the empty string.
C9_PromptMatchesFormDataExceptReset ==
  /\ ( ui_pc = "idle" /\ last_op \in { "select", "test" } )
       => state.current_prompt = build_prompt(get_form_data(World))
  /\ ( ui_pc = "idle" /\ last_op = "reset" )
       => get_form_data(World) = << >> /\ state.current_prompt = << >>

\* A selection that returned every field to the sentinel has completed: the
\* coordinator skipped the empty map and the prompt is the generic one.
C9_Witness ==
  /\ last_op = "select"
  /\ ui_pc = "idle"
  /\ get_form_data(World) = << >>
  /\ ~test_event
  /\ state.current_prompt = build_prompt(<< >>)

\* The operations that are one call of set_form_data(last_arg): a caller's,
\* _test_image_generation's and reset_form's.
SetFormDataReturned == last_op \in { "set_form_data", "test", "reset" }

CallOf(M) == last_op' = M /\ UNCHANGED << observers, general_callback >>

\* How often the log holds a call of callee for event with these arguments.
CountCalls(log, callee, event, args) ==
  Cardinality({ i \in 1..Len(log) :
                  /\ log[i].callee = callee
                  /\ log[i].event = event
                  /\ log[i].args = args })

\* Every observer registered under event was called exactly once with args.
EachObserverOnce(log, event, args) ==
  \A i \in 1..Len(observers[event]) :
    CountCalls(log, observers[event][i], event, args) = 1

\* The entries of a dict other than the one of field_name.
Others(form_data, field_name) == SelectSeq(form_data, LAMBDA e : e[1] # field_name)

C12_ObserversOfFieldEvent ==
  [][ \A M \in ScalarMutators :
        CallOf(M) => EachObserverOnce(notified', FieldOf(M), last_arg') ]_vars

\* C13 (SpecStore): the callback bound with bind_callback is called once, as
\* (field name, new value), by every call of a scalar mutator.
C13_GeneralCallbackEveryChange ==
  [][ \A M \in ScalarMutators :
        ( CallOf(M) /\ general_callback # Unbound )
          => CountCalls(notified', general_callback, "general",
                        << FieldOf(M), last_arg'[1] >>) = 1 ]_vars

\* C14 (SpecForm): when an observer or the bound callback raises during a
\* call of set_form_data or update_form_field, the observers registered after
\* it and the bound callback are still called, the value is stored and the
\* mutator returns normally.
C14_RaisingObserverIsolated ==
  [][ /\ last_op' # "raised"
      /\ CallOf("set_form_data") =>
           /\ state'.form_data = last_arg'[1]
           /\ EachObserverOnce(notified', "form_data", last_arg')
           /\ general_callback # Unbound =>
                CountCalls(notified', general_callback, "general",
                           << "form_data", last_arg'[1] >>) = 1
      /\ CallOf("update_form_field") =>
           /\ Get(state'.form_data, last_arg'[1]) = last_arg'[2]
           /\ EachObserverOnce(notified', "form_field_changed", last_arg') ]_vars

\* set_form_data has returned after calling an observer that raises, then
\* one that returns, then the bound callback.
C14_Witness ==
  /\ last_op = "set_form_data"
  /\ observers["form_data"] = << "raises", "returns" >>
  /\ Len(notified) = 3
  /\ notified[1].callee = "raises"
  /\ notified[2].callee = "returns"
  /\ notified[3].event = "general"
  /\ state.form_data = last_arg[1]

\* C17 (SpecAlias): writing into the dict get_form_data returned, or into
\* the dict that was passed to set_form_data, leaves the stored form data,
\* and so what get_form_data returns later, as it was.
C17_StoredOnlyThroughApi ==
  [][ last_op' = "caller_writes" => get_form_data([ state |-> state' ]) = get_form_data([ state |-> state ]) ]_vars

\* The caller has written into the dict it had passed to set_form_data and
\* the stored form data no longer equals that dict.
C17_Witness ==
  /\ last_op = "caller_writes"
  /\ state.form_data # << >>
  /\ held.arg # state.form_data
  /\ held.got # << >>
  /\ held.got # state.form_data

CanStep(t) == threads[t] # << >> /\ ( Top(t).pc = "lock" => lock = "free" )

C16_DeliveredIsStored ==
  ( \A t \in Threads : threads[t] = << >> )
    => ( ( panel.status_label = "Generating..." ) <=> state.generating_image )

\* C18: the seed the worker puts into a job's payload is the seed the store
\* held when generate_image was called for that job.
C18_PayloadSeedIsSubmissionSeed ==
  [][ \A j \in JobIds :
        ( /\ last_op = "generate_image"
          /\ last_arg[1] = j
          /\ jobs[j].pc = "payload"
          /\ jobs'[j].pc = "check2" )
        => jobs'[j].seed = last_arg[2] ]_vars

\* C19 (Spec), for the draws that differ from the seed K held before: a remix
\* pressed with a non-empty prompt stores the new seed, leaves the prompt as it
\* is and schedules the coordinator's trigger; when the submission the trigger
\* scheduled has run, a job carrying that prompt is in the active set (its
\* worker then builds the payload with the stored seed).
C19_RemixSubmitsJob ==
  [][ /\ ( /\ last_op' = "remix"
           /\ Truthy(state.current_prompt)
           /\ state'.current_seed # state.current_seed )
         => /\ state'.current_prompt = state.current_prompt
            /\ clock' # << >>
            /\ clock'[Len(clock')].kind = "trigger"
      /\ ( last_op = "trigger" /\ ui_pc = "submit" /\ ui_pc' = "idle" )
         => \E id \in active_requests' :
              /\ jobs'[id].prompt = ui_prompt
              /\ ui_prompt = state'.current_prompt ]_vars

LastJob == current_request_id - 1

Transient == { "non_200", "timeout", "connection_error" }

\* The job of the log has ended and was in the active set at no cancel.
EndedUncancelled ==
  /\ current_request_id > 0
  /\ jobs[LastJob].pc = "done"
  /\ ~cancelled[LastJob]

\* C22 (SpecRetry): when an uncancelled job has ended after k < MAX_RETRIES
\* failed attempts followed by a 200 with a valid image, it made exactly those
\* k+1 POSTs (none follows the 200), on_success was invoked exactly once and
\* on_error never.
C22_RetryThenSuccess ==
  /\ \A i \in 1..(Len(notified) - 1) : notified[i] # "image"
  /\ ( /\ EndedUncancelled
       /\ notified # << >>
       /\ notified[Len(notified)] = "image"
       /\ \A i \in 1..(Len(notified) - 1) : notified[i] \in Transient )
     => /\ success_calls[LastJob] = 1
        /\ error_calls[LastJob] = 0

\* C23 (SpecRetry): a job never makes more than MAX_RETRIES POSTs, and an
\* uncancelled job that has ended after MAX_RETRIES failed attempts had
\* on_error invoked exactly once and on_success never.
C23_RetriesBounded ==
  /\ Len(notified) <= MAX_RETRIES
  /\ ( /\ EndedUncancelled
       /\ Len(notified) = MAX_RETRIES
       /\ \A i \in 1..Len(notified) : notified[i] \in Transient )
     => /\ error_calls[LastJob] = 1
        /\ success_calls[LastJob] = 0

\* An uncancelled job has ended after MAX_RETRIES attempts that failed in three
\* different ways, with its one on_error.
C23_Witness ==
  /\ EndedUncancelled
  /\ notified = << "non_200", "timeout", "connection_error" >>
  /\ error_calls[LastJob] = 1

\* A job that was in the active set at no cancel so far.
Uncancelled == current_request_id > 0 /\ ~cancelled[LastJob]

C25_DecodeErrorsSurfaced ==
  /\ []( state.current_image # None => state.current_image[1] = PNG_MAGIC )
  /\ [][ \A j \in JobIds :
           ( /\ jobs[j].pc = "check3"
             /\ jobs[j].response \in { "bad_base64", "not_png" }
             /\ jobs'[j].pc # "check3"
             /\ j \in active_requests )
           => jobs'[j].pc = "except" ]_vars

\* The entries of a selection map that are a choice, as a set.
RealEntries(S) == { S[i] : i \in { k \in 1..Len(S) : S[k][2] # "?" } }

\* C26 (SpecMapper): two selection maps that differ only in entries whose value
\* is the sentinel have the same prompt.
C26_SentinelEntriesIgnored ==
  last_op = "build_prompt" =>
    \A h \in Held :
      RealEntries(held[h]) = RealEntries(last_arg) => returned = build_prompt(held[h])

\* The prompt was built for a map with a choice and a sentinel entry, and the
\* other map has the same choice and no sentinel entry.
C26_Witness ==
  /\ last_op = "build_prompt"
  /\ last_arg = held.arg
  /\ RealEntries(held.arg) = RealEntries(held.got)
  /\ RealEntries(held.arg) # {}
  /\ \E i \in 1..Len(held.arg) : held.arg[i][2] = "?"
  /\ \A i \in 1..Len(held.got) : held.got[i][2] # "?"

\* The canonical order of the fields, and where an atom stands in a prompt
\* (0 when it does not).
CanonicalOrder == << "age", "gender", "ethnicity", "education", "employment", "income" >>

Position(prompt, atom) ==
  IF \E i \in 1..Len(prompt) : prompt[i] = atom
  THEN CHOOSE i \in 1..Len(prompt) : prompt[i] = atom
  ELSE 0

\* The phrase the schema maps a choice to.
PhraseOf(entry) == DEMOGRAPHICS_FIELDS[entry[1]].prompt_mapping[entry[2]]

\* C27 (SpecMapper): the phrases of the chosen fields stand in the prompt in
\* the canonical order age, gender, ethnicity, education, employment, income
\* whatever the insertion order of the map, and two maps with equal entries
\* have the same prompt.
C27_CanonicalOrder ==
  last_op = "build_prompt" =>
    /\ \A i, k \in 1..Len(CanonicalOrder) : \A e, g \in RealEntries(last_arg) :
         ( i < k /\ e[1] = CanonicalOrder[i] /\ g[1] = CanonicalOrder[k] )
           => /\ Position(returned, PhraseOf(e)) > 0
              /\ Position(returned, PhraseOf(e)) < Position(returned, PhraseOf(g))
    /\ \A h \in Held :
         { held[h][i] : i \in 1..Len(held[h]) } = { last_arg[i] : i \in 1..Len(last_arg) }
           => returned = build_prompt(held[h])

\* The prompt was built for a map that holds income before age, and the other
\* map holds the same entries with age first.
C27_Witness ==
  /\ last_op = "build_prompt"
  /\ last_arg = held.arg
  /\ Len(held.arg) = Len(held.got) /\ Len(held.arg) > 1
  /\ held.arg[1][1] = "income" /\ held.arg[1][2] # "?"
  /\ held.arg[Len(held.arg)][1] = "age" /\ held.arg[Len(held.arg)][2] # "?"
  /\ held.got[1] = held.arg[Len(held.arg)]
  /\ { held.got[i] : i \in 1..Len(held.got) } = { held.arg[i] : i \in 1..Len(held.arg) }

\* What stands in a prompt between the prefix and its space and the space and
\* the suffix.
DescriptorPart(prompt) ==
  SubSeq(prompt, Len(PROMPT_PREFIX) + 2, Len(prompt) - Len(PROMPT_SUFFIX) - 1)

\* C28 (SpecMapper): the prompt is the prefix, one space, the descriptor part,
\* one space, the suffix; the descriptor part is "person" exactly when no field
\* of the map produced a phrase, and otherwise the phrases of the chosen
\* fields, each once, with one space between two of them and no "person".
C28_PrefixDescriptorsSuffix ==
  last_op = "build_prompt" =>
    LET D == DescriptorPart(returned)
        phrases == { PhraseOf(e) : e \in RealEntries(last_arg) }
    IN  /\ returned = PROMPT_PREFIX \o << " " >> \o D \o << " " >> \o PROMPT_SUFFIX
        /\ ( D = << "person" >> ) <=> ( phrases = {} )
        /\ phrases # {} =>
             /\ Len(D) = 2 * Cardinality(phrases) - 1
             /\ \A i \in 1..Len(D) : D[i] = " " <=> i % 2 = 0
             /\ { D[i] : i \in { k \in 1..Len(D) : k % 2 = 1 } } = phrases

\* The prompt was built for a map with two choices and a sentinel entry: its
\* descriptor part is two phrases.
C28_Witness ==
  /\ last_op = "build_prompt"
  /\ Cardinality(RealEntries(last_arg)) = 2
  /\ Len(last_arg) > 2
  /\ Len(DescriptorPart(returned)) > 1

\* C29 (SpecArchive): the archive directory never holds more files than
\* MAX_ARCHIVED_IMAGES.
C29_ArchiveCapped == panel.archive <= MAX_ARCHIVED_IMAGES

\* The threads that hold an id and have not started its worker yet.
Holding == { t \in Threads : At(t, { "generate_image" }, "start") }

\* The ids given out so far: to a started job or to a thread that holds one.
Allocated == { j \in JobIds : jobs[j].pc # "unborn" } \cup { Top(t).local : t \in Holding }

\* C30 (SpecAllocate): with generate_image called by two threads at once, no id
\* is held by two calls or given again after a job has it, each id is in the
\* active set until its worker is started, and every id allocated is greater
\* than all the ids allocated before it.
C30_IdsAllocatedAtomically ==
  /\ []( /\ \A t, u \in Holding : t # u => Top(t).local # Top(u).local
         /\ \A t \in Holding : /\ jobs[Top(t).local].pc = "unborn"
                                 /\ Top(t).local \in active_requests )
  /\ [][ \A t \in Threads :
           ( At(t, { "generate_image" }, "lock") /\ threads'[t] # threads[t] )
           => \A j \in Allocated : j < threads'[t][1].local ]_vars

\* Both threads hold an id at the same time.
C30_Witness == Holding = Threads

\* The jobs whose worker has exited, and the jobs whose worker thread never
\* started (Thread.start() raised inside generate_image).
Finished == { j \in JobIds : jobs[j].pc = "done" }

NeverStarted == { j \in JobIds : jobs[j].pc = "nothread" }

\* C31 (SpecClient): the active set holds only ids of jobs whose worker has not
\* finished yet: the id of a worker that has exited, whichever way, is not in
\* it, and neither is the id of a job whose worker thread failed to start.
C31_ActiveSetOnlyLiveJobs ==
  /\ \A j \in Finished : j \notin active_requests
  /\ \A j \in NeverStarted : j \notin active_requests

\* The positions at which the worker asks _is_request_active: lines 83, 91, 172,
\* 99, 108 and 116.
Checkpoints == { "check1", "check2", "loop", "check3", "check4", "except" }

\* The worker of j has seen its id absent and is on its way out: it returns
\* None from _make_api_request to the check of line 99, or it is at or past its
\* finally clause.
NoMoreWork(j) ==
  \/ jobs[j].pc \in { "finally", "done" }
  \/ jobs[j].pc = "check3" /\ jobs[j].response = "None"

\* Job j was cancelled and its worker has not yet come to the next POST: it is
\* before the pre-send check, or between two attempts.
CancelledBeforePost(j) ==
  /\ cancelled[j]
  /\ jobs[j].pc \in { "check1", "payload", "check2", "loop" }

\* C32 (SpecClient): a worker that finds its id absent at a checkpoint goes the
\* way out, and on the way out it makes no POST and invokes no callback; a job
\* cancelled before the pre-send check, or between two attempts, never comes
\* to a POST or a callback again.
C32_NoWorkAfterObservedCancel ==
  [][ \A j \in JobIds :
        /\ ( /\ jobs[j].pc \in Checkpoints
              /\ j \notin active_requests
              /\ jobs'[j] # jobs[j] )
            => NoMoreWork(j)'
        /\ ( NoMoreWork(j) \/ CancelledBeforePost(j) )
            => /\ NoMoreWork(j)' \/ CancelledBeforePost(j)'
               /\ jobs'[j].pc # "post"
               /\ success_calls'[j] = success_calls[j]
               /\ error_calls'[j] = error_calls[j] ]_vars

\* A job with a failed attempt behind it was cancelled, and its worker has found
\* the id absent at the head of the next attempt.
C32_Witness ==
  \E j \in JobIds : /\ cancelled[j]
                      /\ jobs[j].pc = "check3"
                      /\ jobs[j].response = "None"
                      /\ jobs[j].attempt > 0
                      /\ Calls(j) = 0

\* A step that is one run of a handler of the form panel: no worker moves in
\* it and no clock event fires.
PanelStep(op) ==
  /\ last_op' = op
  /\ jobs' = jobs
  /\ ui_pc = "idle" /\ ui_pc' = "idle"
  /\ vars' # vars

\* C33 (SpecSelect): one form selection makes one generation trigger: when its
\* handler has returned, cancel_pending_requests has emptied the active set
\* and at most one submission was scheduled, the one of the prompt of the new
\* selections.
C33_OneTriggerPerSelection ==
  [][ PanelStep("select") =>
        /\ active_requests' = {}
        /\ \/ clock' = clock
           \/ clock' = Append(clock, [ kind |-> "generate",
                                       prompt |-> build_prompt(last_arg') ]) ]_vars

\* A step that is one run of reset_form: no worker that exists moves in it and
\* no clock event fires.
ResetStep ==
  /\ last_op' = "reset"
  /\ ui_pc = "idle" /\ ui_pc' = "idle"
  /\ \A j \in JobIds : jobs[j].pc # "unborn" => jobs'[j] = jobs[j]
  /\ vars' # vars

\* C34 (SpecSelect): when reset_form has returned, every control's current
\* value is "?", get_form_data() is the empty map and current_prompt is the
\* empty string; the reset has created no job, scheduled no submission and
\* left current_image as it was.
C34_ResetClearsForm ==
  [][ ResetStep =>
        /\ \A f \in SchemaFields : form_widgets'[f] = "?"
        /\ get_form_data(World)' = << >>
        /\ state'.current_prompt = << >>
        /\ jobs' = jobs
        /\ current_request_id' = current_request_id
        /\ clock' = clock
        /\ state'.current_image = state.current_image ]_vars

\* reset_form was the last handler to run: the submission a selection scheduled
\* before it is still pending, and an image is on display.
C34_Witness ==
  /\ last_op = "reset"
  /\ ui_pc = "idle"
  /\ clock # << >>
  /\ state.current_image # None
  /\ state.current_prompt = << >>

\* The labels with a capital letter among the selections, lowercased.
Lowercased ==
  ( "Child" :> "child" @@ "Male" :> "male" @@ "Senior" :> "senior" @@
    "Nonbinary" :> "nonbinary" )

C36_RemixVisibleAfterFirstImage ==
  /\ []( panel.archive = 0 =>
           /\ ~panel.has_generated_image
           /\ panel.remix_opacity = 0
           /\ ~panel.fade_in_scheduled )
  /\ []( panel.archive > 0 =>
           /\ panel.has_generated_image
           /\ panel.fade_in_scheduled \/ panel.remix_opacity = 10 )
  /\ [][ /\ panel.has_generated_image => panel'.has_generated_image
         /\ panel'.remix_opacity >= panel.remix_opacity ]_vars

\* The button has faded in, and a later notification without an image has
\* put the placeholder back.
C36_Witness ==
  /\ panel.has_generated_image
  /\ panel.remix_opacity = 10
  /\ last_op = "set_current_image"
  /\ state.current_image = None

\* No handler is running, the client has no active job and the clock holds no
\* deferred trigger or submission.
NothingPending == ui_pc = "idle" /\ active_requests = {} /\ clock = << >>

\* C37 (Spec): whenever the client has no active job and nothing is scheduled,
\* generating_image is false; and generating_image is cleared only when no
\* submitted job is left active.
C37_GeneratingOnlyWhilePending ==
  /\ []( NothingPending => ~state.generating_image )
  /\ [][ ( state.generating_image /\ ~state'.generating_image )
           => active_requests' = {} ]_vars

\* C38 (SpecStatus): when the image panel has handled generating_image =
\* false, no interval event of the animation is left on the clock and the
\* status text is "Ready", and stays so until the next generating_image =
\* true, also after two notifications of true with no false between them.
C38_NoTimerAfterStop ==
  ~state.generating_image =>
    /\ panel.animation_event # "scheduled"
    /\ ~panel.replaced_events
    /\ panel.status_label = "Ready"

\* Thread t is inside a call that waits for the state lock.
Waiting(t) == threads[t] # << >> /\ Top(t).pc = "lock"

\* C39 (SpecSummary): no operation of the state API waits for the state lock
\* while its own thread holds it, so that every call returns once the other
\* threads have released the lock; get_state_summary in particular.
C39_NoSelfDeadlock == \A t \in Threads : Waiting(t) => lock # t

\* A step of cancel_pending_requests that removed at least one id.
CancelStep == cancelled' # cancelled

\* C40 (SpecClient): cancel_pending_requests only empties the active set: the
\* id counter, the jobs and the callbacks delivered stay as they were and only
\* ids that were active become cancelled; the counter never goes down and an
\* id enters the active set only as the counter's value, which then goes up by
\* one, so that a cancelled id is never active again and a job submitted after
\* the cancel is active and not cancelled.
C40_CancelOnlyEmptiesActiveSet ==
  [][ /\ CancelStep =>
           /\ active_requests' = {}
           /\ current_request_id' = current_request_id
           /\ jobs' = jobs
           /\ success_calls' = success_calls
           /\ error_calls' = error_calls
           /\ \A j \in JobIds : cancelled'[j] => cancelled[j] \/ j \in active_requests
      /\ current_request_id' >= current_request_id
      /\ \A j \in active_requests' \ active_requests :
           /\ j = current_request_id
           /\ current_request_id' = j + 1
           /\ ~cancelled[j] /\ ~cancelled'[j]
           /\ jobs[j].pc = "unborn"
      /\ \A j \in JobIds : cancelled[j] => j \notin active_requests'
    ]_vars

\* Request 0 was cancelled; request 1, submitted after that cancel, is still
\* active, was never cancelled and has delivered its image.
C40_Witness ==
  /\ cancelled[0] /\ ~cancelled[1]
  /\ 1 \in active_requests
  /\ success_calls[1] = 1


=============================================================================
